---- MODULE Spec2Model ----
(***************************************************************************)
(* SEFS, the self-organizing semantic file system (src/backend).           *)
(*                                                                         *)
(* The model covers the semantic gravity loop: the watched directory, the  *)
(* watchdog handler with its debounce timer (monitor.py), the FileManager  *)
(* with its pending set (file_ops.py), the Store (storage.py), the chunk   *)
(* index (rag_engine.py), the clusterer (analyzer.py) and the dispatcher,  *)
(* ingestor, organizer and /move-file handler (main.py).                   *)
(*                                                                         *)
(* Time is counted in whole seconds.  A handler runs to completion in one  *)
(* step; a filesystem event is delivered to the handler by the observer    *)
(* thread at most MaxLatency seconds after the change that caused it, and  *)
(* before the user changes the disk again.                                 *)
(***************************************************************************)
EXTENDS Integers, Sequences, FiniteSets, TLC

(***************************************************************************)
(* Bounds of the model.                                                    *)
(***************************************************************************)
\* number of things that happen to the system in one behaviour: changes on
\* disk, API requests, ingestions that meet a failing collaborator
MaxOps == 3

\* the same, for the runs of SpecBurst
MaxBurstOps == 4

\* the same, for the runs of SpecMonitor
MaxMonitorOps == 4

\* modification times on disk and in the Store, and the number of
\* process_file calls, in the runs of SpecCache
MaxMtime == 3

MaxProbes == 2
MaxStoreOps == 3
MaxWords == 800
MaxChunkOps == 3
MaxRetryOps == 2
MaxMoveOps == 3
MaxThreadOps == 2
\* the largest number of embeddings handed to the clusterer on its own
MaxPoints == 3
\* user actions in the runs with renames
MaxRenameOps == 3
\* user actions in the runs that end with a shutdown
MaxShutdownOps == 3

(***************************************************************************)
(* Program constants.                                                      *)
(***************************************************************************)
\* config.py: CLUSTER_EPS = 0.6, in tenths
CLUSTER_EPS == 6
\* config.py: CLUSTER_MIN_SAMPLES = 1
CLUSTER_MIN_SAMPLES == 1
\* monitor.py: self.debounce_seconds = 2
debounce_seconds == 2
\* file_ops.py: time.sleep(2) in clear_pending
SettleSeconds == 2
\* storage.py: abs(current_mtime - stored_mtime) > 1.0
MtimeTolerance == 1
\* main.py: max_retries = 3
max_retries == 3
\* main.py: len(text.strip()) > 10
MinTextLen == 10
CHUNK_SIZE == 400
CHUNK_OVERLAP == 50
TOP_K_CHUNKS == 5
MinChunkLen == 50

\* longest delay, in seconds, between a change on disk and its event: the
\* observer thread is quicker than the settle delay
MaxLatency == SettleSeconds - 1

\* seconds between two writes: always beyond the Store's tolerance
WriteGap == MtimeTolerance + 1

(***************************************************************************)
(* Paths.  A path is a directory and a base name; the directory is the     *)
(* tuple of its components below MONITOR_ROOT, <<>> for the root itself.   *)
(* A cluster folder "{topic_label}_{cluster_id}" is <<label, digits>>.     *)
(***************************************************************************)
MONITOR_ROOT == <<>>

METADATA_DIR == <<".sefs_metadata">>

Names == {"a.txt", "b.txt"}

NoPath == [dir |-> <<>>, name |-> ""]

MkPath(d, n) == [dir |-> d, name |-> n]

\* a database file inside the metadata directory and a write-ahead log
\* outside of it
DbPath == MkPath(METADATA_DIR, "embeddings.db")

WalPath == MkPath(MONITOR_ROOT, "notes.db-wal")

Digits == <<"0", "1", "2", "3", "4", "5", "6", "7", "8", "9">>

\* str(cluster_id) inside the f-string of the folder name
IntToStr(n) == Digits[n + 1]

\* int(parts[1]) in move_file; -1 stands for ValueError
StrToInt(s) == IF \E i \in DOMAIN Digits : Digits[i] = s
               THEN (CHOOSE i \in DOMAIN Digits : Digits[i] = s) - 1
               ELSE -1

\* f"{topic_label}_{cluster_id}"
FolderName(topic_label, cluster_id) == <<topic_label, IntToStr(cluster_id)>>

\* os.path.basename(os.path.dirname(filepath)); the root's own name is never
\* a cluster folder name
ParentName(p) == p.dir

\* '.sefs_metadata' in path
InMetadata(p) == p.dir = METADATA_DIR

\* path.endswith(('.db-journal', '.db-wal'))
IsSidecar(p) == p.name \in {"notes.db-wal", "notes.db-journal"}

\* basename does not start with '.', extension is .txt or .pdf: the names
\* of the model that pass the two tests (".a.txt", "a.tmp", "tmp.db",
\* "embeddings.db" and "notes.db-wal" do not)
Eligible(p) == p.name \in {"a.txt", "b.txt", "gone.txt"}

(***************************************************************************)
(* Texts, embeddings and keyphrases: the external collaborators, given by  *)
(* tables over a small set of documents.                                   *)
(***************************************************************************)
Bodies == {"entangle", "tunnel", "neural", "tiny"}

\* a text as read from a file: its body, and the document it was read from
\* (doc is bookkeeping of the model; no operation of the program reads it)
MkText(body, doc) == [body |-> body, doc |-> doc]

\* the empty string
NoText == [body |-> "", doc |-> 0]

\* text.split(): the number of words of each body, and the number of
\* characters of each of its words
WordCount(t) == CASE t = "" -> 0
                  [] t = "tiny" -> 1
                  [] t = "abcdefghij" -> 1
                  [] t = "a b c d e f" -> 6
                  [] t = "essay" -> CHUNK_SIZE
                  [] t = "report" -> 2 * (CHUNK_SIZE - CHUNK_OVERLAP) + 1
                  [] t = "book" -> 2 * CHUNK_SIZE
                  [] OTHER -> 10

WordLen(t) == CASE t = "tiny" -> 4
                [] t = "abcdefghij" -> 10
                [] t = "a b c d e f" -> 1
                [] OTHER -> 5

\* len(" ".join(words)) for m words of l characters
JoinedLen(m, l) == IF m = 0 THEN 0 ELSE m * (l + 1) - 1

\* len(text.strip()) of each body
StrippedLen(t) == JoinedLen(WordCount(t), WordLen(t))

\* SentenceTransformer.encode: one vector per text
Encode(t) == CASE t = "entangle" -> "v_entangle"
               [] t = "tunnel" -> "v_tunnel"
               [] t = "neural" -> "v_neural"
               [] OTHER -> "v_tiny"

\* cosine distance in tenths: the two quantum texts are close to each
\* other and far from the neural one
Dist(u, v) == IF u = v THEN 0
              ELSE IF {u, v} = {"v_entangle", "v_tunnel"} THEN 3
              ELSE 9

\* KeyBERT.extract_keywords(..., top_n=1): the keyphrases of a combined
\* text, taken from the text that opens it
Keywords(docs) == CASE docs[1].body = "entangle" -> <<"quantum entanglement">>
                    [] docs[1].body = "tunnel" -> <<"quantum tunneling">>
                    [] docs[1].body = "neural" -> <<"neural network">>
                    [] OTHER -> << >>

\* keyword.replace(' ', '_').title()
TitleLabel(kw) == CASE kw = "quantum entanglement" -> "Quantum_Entanglement"
                    [] kw = "quantum tunneling" -> "Quantum_Tunneling"
                    [] kw = "neural network" -> "Neural_Network"
                    [] OTHER -> "Like"

\* any(weak in topic.lower() for weak in weak_words)
IsWeak(topic) == topic = "Like"

(***************************************************************************)
(* Python dicts.  file_embeddings keeps its insertion order, which the     *)
(* clusterer sees; it is a sequence of [k, v] entries.  The other maps are *)
(* functions on their key sets.                                            *)
(***************************************************************************)
DictKeys(d) == {d[i].k : i \in 1..Len(d)}

DictGet(d, key) == d[CHOOSE i \in 1..Len(d) : d[i].k = key].v

\* d[key] = val
DictSet(d, key, val) ==
    IF key \in DictKeys(d)
    THEN [i \in 1..Len(d) |-> IF d[i].k = key THEN [k |-> key, v |-> val] ELSE d[i]]
    ELSE Append(d, [k |-> key, v |-> val])

\* d.pop(key, None) / del d[key]
DictDel(d, key) == SelectSeq(d, LAMBDA e : e.k # key)

MapSet(f, key, val) == [x \in (DOMAIN f) \cup {key} |-> IF x = key THEN val ELSE f[x]]

MapDel(f, key) == [x \in (DOMAIN f) \ {key} |-> f[x]]

EmptyMap == [x \in {} |-> 0]

(***************************************************************************)
(* Store (storage.py): one row per filepath.                               *)
(***************************************************************************)
\* INSERT OR REPLACE with the default cluster_id = -1, topic_label = ""
save_embedding(st, filepath, embedding, content, last_modified) ==
    MapSet(st, filepath, [embedding |-> embedding, content |-> content,
                          last_modified |-> last_modified,
                          cluster_id |-> -1, topic_label |-> ""])

\* abs(current_mtime - stored_mtime)
AbsDiff(x, y) == IF x >= y THEN x - y ELSE y - x

NoRow == [hit |-> FALSE, embedding |-> "", content |-> NoText, last_modified |-> 0]

\* a get_embedding that tolerates one second more than the code does; the
\* freshness property must tell it from the real one
get_embedding_lenient(fs, st, filepath) ==
    IF filepath \notin DOMAIN fs THEN NoRow
    ELSE IF filepath \notin DOMAIN st THEN NoRow
    ELSE IF AbsDiff(fs[filepath].mtime, st[filepath].last_modified) > MtimeTolerance + 1 THEN NoRow
    ELSE [hit |-> TRUE, embedding |-> st[filepath].embedding,
          content |-> st[filepath].content,
          last_modified |-> st[filepath].last_modified]

\* None unless the file exists, the row exists and the mtimes agree
get_embedding(fs, st, filepath) ==
    IF filepath \notin DOMAIN fs THEN NoRow
    ELSE IF filepath \notin DOMAIN st THEN NoRow
    ELSE IF AbsDiff(fs[filepath].mtime, st[filepath].last_modified) > MtimeTolerance THEN NoRow
    ELSE [hit |-> TRUE, embedding |-> st[filepath].embedding,
          content |-> st[filepath].content,
          last_modified |-> st[filepath].last_modified]

\* UPDATE ... WHERE filepath = ?: changes nothing when no row has that key
update_cluster(st, filepath, cluster_id, topic_label) ==
    IF filepath \in DOMAIN st
    THEN [st EXCEPT ![filepath].cluster_id = cluster_id, ![filepath].topic_label = topic_label]
    ELSE st

delete_embedding(st, filepath) == MapDel(st, filepath)

\* UPDATE ... SET filepath = dest WHERE filepath = src violates the primary
\* key when dest already has a row: sqlite3.IntegrityError
move_embedding_raises(st, src, dest) ==
    src \in DOMAIN st /\ dest \in DOMAIN st /\ src # dest

move_embedding(st, src, dest) ==
    IF src \in DOMAIN st /\ src # dest
    THEN MapSet(MapDel(st, src), dest, st[src])
    ELSE st

(***************************************************************************)
(* Chunk index (rag_engine.py): the ChromaDB collection, a map from chunk  *)
(* id to the chunk and its metadata.                                       *)
(***************************************************************************)
\* cluster_id = None: the search is not restricted to a cluster
NoFilter == -2

RECURSIVE Range(_, _, _)
\* list(range(start, stop, step))
Range(start, stop, step) ==
    IF start >= stop THEN << >> ELSE <<start>> \o Range(start + step, stop, step)

\* the values of i in the loop of chunk_text over a text of n words
WindowStarts(n) == Range(0, n, CHUNK_SIZE - CHUNK_OVERLAP)

Min(a, b) == IF a <= b THEN a ELSE b

RECURSIVE ChunkFrom(_, _, _, _)
\* the loop of chunk_text: a window is words[i:i + CHUNK_SIZE]; one whose
\* joined text has fewer than 50 characters is skipped
ChunkFrom(text, filepath, starts, chunks) ==
    IF starts = << >> THEN chunks
    ELSE LET i == Head(starts)
             word_count == Min(CHUNK_SIZE, WordCount(text.body) - i)
         IN IF JoinedLen(word_count, WordLen(text.body)) < MinChunkLen
            THEN ChunkFrom(text, filepath, Tail(starts), chunks)
            ELSE ChunkFrom(text, filepath, Tail(starts),
                           Append(chunks, [text |-> text, start |-> i, filepath |-> filepath,
                                           chunk_index |-> Len(chunks),
                                           word_count |-> word_count]))

chunk_text(text, filepath) ==
    ChunkFrom(text, filepath, WindowStarts(WordCount(text.body)), << >>)

\* f"{filepath}__chunk_{i}"
ChunkId(filepath, i) == [filepath |-> filepath, index |-> i]

\* collection.get(where={"filepath": filepath})['ids']
collection_get(ch, filepath) == {id \in DOMAIN ch : ch[id].filepath = filepath}

remove_document(ch, filepath) ==
    [id \in (DOMAIN ch) \ collection_get(ch, filepath) |-> ch[id]]

\* collection.add: an id that is already in the collection keeps its chunk
collection_add(ch, chunks, cluster_id, topic_label) ==
    LET ids == {ChunkId(chunks[i + 1].filepath, i) : i \in 0..(Len(chunks) - 1)}
    IN [id \in (DOMAIN ch) \cup ids |->
           IF id \in DOMAIN ch THEN ch[id]
           ELSE [text |-> chunks[id.index + 1].text, start |-> chunks[id.index + 1].start,
                 filepath |-> chunks[id.index + 1].filepath,
                 chunk_index |-> chunks[id.index + 1].chunk_index,
                 word_count |-> chunks[id.index + 1].word_count,
                 cluster_id |-> cluster_id, topic_label |-> topic_label]]

\* an add_document that does not remove the old chunks first; the
\* uniqueness property must tell it from the real one
add_document_keep_old(ch, filepath, text, cluster_id, topic_label) ==
    LET chunks == chunk_text(text, filepath)
    IN IF chunks = << >> THEN ch
       ELSE collection_add(ch, chunks, cluster_id, topic_label)

add_document(ch, filepath, text, cluster_id, topic_label) ==
    LET ch1 == remove_document(ch, filepath)
        chunks == chunk_text(text, filepath)
    IN IF chunks = << >> THEN ch1
       ELSE collection_add(ch1, chunks, cluster_id, topic_label)

\* collection.update(ids=[chunk_id], metadatas=[{cluster_id, topic_label}])
\* for each id found: the two keys are set, the other metadata stay
update_cluster_info(ch, filepath, cluster_id, topic_label) ==
    [id \in DOMAIN ch |->
        IF id \in collection_get(ch, filepath)
        THEN [ch[id] EXCEPT !.cluster_id = cluster_id, !.topic_label = topic_label]
        ELSE ch[id]]

\* "(absent)" stands for a key that a payload does not have
NoPayload == [answer |-> "", sources |-> {}, error |-> "(absent)"]

\* the chunks collection.query may return: n_results of those that pass
\* the where filter, all of them when there are fewer; which ones depends
\* on the embeddings
SearchResults(ch, cluster_id) ==
    LET cands == {id \in DOMAIN ch : cluster_id = NoFilter \/ ch[id].cluster_id = cluster_id}
    IN {hits \in SUBSET cands : Cardinality(hits) = Min(TOP_K_CHUNKS, Cardinality(cands))}

\* llm_ok: generate_content returns a text; otherwise it raises
generate_answer(ch, query, hits, client, llm_ok) ==
    IF ~client
    THEN [answer |-> "Gemini API key not configured", sources |-> {},
          error |-> "API_KEY_MISSING"]
    ELSE IF llm_ok
    THEN [answer |-> "generated",
          sources |-> {[filepath |-> ch[id].filepath, topic |-> ch[id].topic_label] : id \in hits},
          error |-> "(absent)"]
    ELSE [answer |-> "Error generating answer", sources |-> {}, error |-> "exception"]

\* hits is what search_chunks returned
ask(ch, query, hits, client, llm_ok) ==
    IF hits = {}
    THEN [answer |-> "No relevant documents found in the knowledge base.", sources |-> {},
          error |-> "(absent)"]
    ELSE generate_answer(ch, query, hits, client, llm_ok)

(***************************************************************************)
(* Clusterer (analyzer.py).                                                *)
(***************************************************************************)
\* the eps-neighbourhood of point i, itself included
Neighbours(X, i, eps) == {j \in 1..Len(X) : Dist(X[i], X[j]) <= eps}

IsCore(X, i, eps, min_samples) == Cardinality(Neighbours(X, i, eps)) >= min_samples

RECURSIVE Reach(_, _, _, _)
\* the points density-reachable from the set C
Reach(X, C, eps, min_samples) ==
    LET C2 == C \cup UNION {Neighbours(X, i, eps) : i \in {c \in C : IsCore(X, c, eps, min_samples)}}
    IN IF C2 = C THEN C ELSE Reach(X, C2, eps, min_samples)

RECURSIVE DbscanFrom(_, _, _, _, _, _)
\* DBSCAN.fit: points are visited in order, a new cluster number is taken
\* at each unlabelled core point
DbscanFrom(X, i, labels, label_num, eps, min_samples) ==
    IF i > Len(X) THEN labels
    ELSE IF labels[i] # -1 \/ ~IsCore(X, i, eps, min_samples)
    THEN DbscanFrom(X, i + 1, labels, label_num, eps, min_samples)
    ELSE LET comp == Reach(X, {i}, eps, min_samples)
         IN DbscanFrom(X, i + 1,
                       [j \in 1..Len(X) |-> IF j \in comp /\ labels[j] = -1
                                            THEN label_num ELSE labels[j]],
                       label_num + 1, eps, min_samples)

\* DBSCAN(eps=eps, min_samples=min_samples, metric='cosine').fit(X).labels_
DBSCAN(X, eps, min_samples) ==
    DbscanFrom(X, 1, [j \in 1..Len(X) |-> -1], 0, eps, min_samples)

\* an extract_topic_label without the guard 'if not texts'; the shape
\* property must tell it from the real one
extract_topic_label_no_guard(texts) ==
    LET keywords == IF texts = << >> THEN << >>
                    ELSE Keywords(SubSeq(texts, 1, IF Len(texts) < 3 THEN Len(texts) ELSE 3))
    IN IF Len(keywords) > 0
       THEN LET topic == TitleLabel(keywords[1])
            IN IF IsWeak(topic)
               THEN (IF Len(keywords) > 1 THEN TitleLabel(keywords[2]) ELSE "General_Topic")
               ELSE topic
       ELSE "General_Topic"

\* extract_topic_label(texts)
extract_topic_label(texts) ==
    IF texts = << >> THEN "Misc"
    ELSE LET keywords == Keywords(SubSeq(texts, 1, IF Len(texts) < 3 THEN Len(texts) ELSE 3))
         IN IF Len(keywords) > 0
            THEN LET topic == TitleLabel(keywords[1])
                 IN IF IsWeak(topic)
                    THEN (IF Len(keywords) > 1 THEN TitleLabel(keywords[2]) ELSE "General_Topic")
                    ELSE topic
            ELSE "General_Topic"

\* cluster_docs[label]: the contents of the members, in dict order
ClusterDocs(emb, cont, labels, label) ==
    LET idx == SelectSeq([i \in 1..Len(emb) |-> i],
                         LAMBDA i : labels[i] = label /\ emb[i].k \in DOMAIN cont)
    IN [n \in 1..Len(idx) |-> cont[emb[idx[n]].k]]

\* cluster_files_with_topics: the items of the result, in dict order
cluster_files_with_topics(emb, cont, eps, min_samples) ==
    LET labels == DBSCAN([i \in 1..Len(emb) |-> emb[i].v], eps, min_samples)
    IN [i \in 1..Len(emb) |->
          [k |-> emb[i].k,
           cluster_id |-> labels[i],
           topic_label |-> IF labels[i] = -1 THEN "Uncategorized"
                           ELSE extract_topic_label(ClusterDocs(emb, cont, labels, labels[i]))]]

(***************************************************************************)
(* The state the handlers work on, as one record: the three maps of        *)
(* main.py, the Store, the chunk index, the disk, the FileManager's        *)
(* pending set with its clear_pending threads, and the events the disk     *)
(* changes have raised.  moves, submitted and reingested record what the   *)
(* running handler has done so far.                                        *)
(***************************************************************************)
\* a watchdog event; sys names the caller of the FileManager.safe_move that
\* caused it ("organizer", "move_file"), "" for a change made by the user
MkEvent(type, src, dest, is_dir, sys) ==
    [event_type |-> type, src_path |-> src, dest_path |-> dest,
     is_directory |-> is_dir, sys |-> sys]

\* os.listdir(dir) is empty
DirEmpty(fs, d) == ~\E p \in DOMAIN fs : p.dir = d

MkCluster(cluster_id, topic_label) == [cluster_id |-> cluster_id, topic_label |-> topic_label]

(***************************************************************************)
(* FileManager (file_ops.py).                                              *)
(***************************************************************************)
\* shutil.move raises when the source is gone
\* shutil.move raises: there is no file at src, or the file cannot be
\* renamed (deny: it is held open by another program)
MoveRaises(S, src, dst) == src \notin DOMAIN S.files \/ S.deny

\* a safe_move whose except clause does not discard the two paths; the
\* drain property must tell it from the real one
safe_move_keep_pending(S, src, dst) ==
    IF src = dst THEN S
    ELSE LET made == IF dst.dir = MONITOR_ROOT THEN S.dirs ELSE S.dirs \cup {dst.dir}
         IN IF MoveRaises(S, src, dst)
            THEN [S EXCEPT !.dirs = made, !.pending = @ \cup {dst, src},
                           !.failed = Append(@, <<src, dst>>)]
            ELSE LET moved == MapSet(MapDel(S.files, src), dst, S.files[src])
                     gone == src.dir # MONITOR_ROOT /\ src.dir \in made /\ DirEmpty(moved, src.dir)
                 IN [S EXCEPT !.dirs = IF gone THEN made \ {src.dir} ELSE made,
                              !.pending = @ \cup {dst, src},
                              !.files = moved,
                              !.threads = @ \cup {[src |-> src, dst |-> dst, left |-> SettleSeconds]},
                              !.inflight = Append(@, [ev |-> MkEvent("moved", src, dst, FALSE, S.by),
                                                      age |-> 0]),
                              !.renamed = [p \in (DOMAIN @) \cup {src, dst} |->
                                              IF p \in {src, dst} THEN 0 ELSE @[p]],
                              !.moves = Append(@, <<src, dst>>)]

safe_move(S, src, dst) ==
    IF src = dst THEN S
    ELSE LET made == IF dst.dir = MONITOR_ROOT THEN S.dirs ELSE S.dirs \cup {dst.dir}
         IN IF MoveRaises(S, src, dst)
            THEN [S EXCEPT !.dirs = made, !.pending = (@ \cup {dst, src}) \ {dst, src},
                           !.failed = Append(@, <<src, dst>>)]
            ELSE LET moved == MapSet(MapDel(S.files, src), dst, S.files[src])
                     gone == src.dir # MONITOR_ROOT /\ src.dir \in made /\ DirEmpty(moved, src.dir)
                 IN [S EXCEPT !.dirs = IF gone THEN made \ {src.dir} ELSE made,
                              !.pending = @ \cup {dst, src},
                              !.files = moved,
                              !.threads = @ \cup {[src |-> src, dst |-> dst, left |-> SettleSeconds]},
                              !.inflight = Append(@, [ev |-> MkEvent("moved", src, dst, FALSE, S.by),
                                                      age |-> 0]),
                              !.renamed = [p \in (DOMAIN @) \cup {src, dst} |->
                                              IF p \in {src, dst} THEN 0 ELSE @[p]],
                              !.moves = Append(@, <<src, dst>>)]

is_system_operation(pending, path) == path \in pending

(***************************************************************************)
(* Organizer (main.py, recluster_and_organize).                            *)
(***************************************************************************)
\* an organize loop whose relocation re-keys the entry the path had in
\* file_clusters, when it had one, and does not write the new assignment;
\* the tracking property must tell it from the real one
OrganizeOne_rekey(S, it) ==
    IF it.cluster_id = -1 THEN S
    ELSE LET folder_name == FolderName(it.topic_label, it.cluster_id)
             filepath == it.k
             target_path == MkPath(folder_name, filepath.name)
         IN IF ParentName(filepath) = folder_name
            THEN [S EXCEPT !.clus = MapSet(@, filepath, MkCluster(it.cluster_id, it.topic_label)),
                           !.store = update_cluster(@, filepath, it.cluster_id, it.topic_label)]
            ELSE IF filepath = target_path THEN S
            ELSE LET hasEmb == filepath \in DictKeys(S.emb)
                     hasCont == filepath \in DOMAIN S.cont
                     emb1 == IF hasEmb
                             THEN DictSet(DictDel(S.emb, filepath), target_path, DictGet(S.emb, filepath))
                             ELSE S.emb
                     cont1 == IF hasCont
                              THEN MapSet(MapDel(S.cont, filepath), target_path, S.cont[filepath])
                              ELSE S.cont
                     clus1 == MapDel(MapSet(S.clus, target_path,
                                            IF filepath \in DOMAIN S.clus THEN S.clus[filepath]
                                            ELSE MkCluster(it.cluster_id, it.topic_label)),
                                     filepath)
                     S1 == [S EXCEPT !.emb = emb1, !.cont = cont1, !.clus = clus1,
                                     !.store = update_cluster(@, target_path, it.cluster_id, it.topic_label),
                                     !.chunks = update_cluster_info(@, target_path, it.cluster_id,
                                                                    it.topic_label)]
                 IN safe_move([S1 EXCEPT !.by = "organizer"], filepath, target_path)

\* one item of the loop over new_clusters.items()
OrganizeOne(S, it) ==
    IF it.cluster_id = -1 THEN S
    ELSE LET folder_name == FolderName(it.topic_label, it.cluster_id)
             filepath == it.k
             target_path == MkPath(folder_name, filepath.name)
         IN IF ParentName(filepath) = folder_name
            THEN [S EXCEPT !.clus = MapSet(@, filepath, MkCluster(it.cluster_id, it.topic_label)),
                           !.store = update_cluster(@, filepath, it.cluster_id, it.topic_label)]
            ELSE IF filepath = target_path THEN S
            ELSE LET hasEmb == filepath \in DictKeys(S.emb)
                     hasCont == filepath \in DOMAIN S.cont
                     emb1 == IF hasEmb
                             THEN DictSet(DictDel(S.emb, filepath), target_path, DictGet(S.emb, filepath))
                             ELSE S.emb
                     cont1 == IF hasCont
                              THEN MapSet(MapDel(S.cont, filepath), target_path, S.cont[filepath])
                              ELSE S.cont
                     clus1 == MapDel(MapSet(S.clus, target_path,
                                            MkCluster(it.cluster_id, it.topic_label)), filepath)
                     S1 == [S EXCEPT !.emb = emb1, !.cont = cont1, !.clus = clus1,
                                     !.store = update_cluster(@, target_path, it.cluster_id, it.topic_label),
                                     !.chunks = update_cluster_info(@, target_path, it.cluster_id,
                                                                    it.topic_label)]
                 IN safe_move([S1 EXCEPT !.by = "organizer"], filepath, target_path)

RECURSIVE OrganizeFrom(_, _, _)
OrganizeFrom(S, items, i) ==
    IF i > Len(items) THEN S
    ELSE OrganizeFrom(OrganizeOne(S, items[i]), items, i + 1)

\* the closing sweep: every empty top-level directory but the metadata one
\* is removed
SweepEmpty(S) == [S EXCEPT !.dirs = {d \in @ : ~DirEmpty(S.files, d)}]

recluster_and_organize(S) ==
    IF S.emb = << >> THEN [S EXCEPT !.clus = EmptyMap]
    ELSE LET existing_files == SelectSeq(S.emb, LAMBDA e : e.k \in DOMAIN S.files)
             keep == DictKeys(existing_files)
             S1 == [S EXCEPT !.emb = existing_files,
                             !.cont = [p \in (DOMAIN @) \cap keep |-> @[p]],
                             !.clus = [p \in (DOMAIN @) \cap keep |-> @[p]]]
         IN IF existing_files = << >> THEN S1
            ELSE LET new_clusters == cluster_files_with_topics(S1.emb, S1.cont, CLUSTER_EPS,
                                                               CLUSTER_MIN_SAMPLES)
                 IN SweepEmpty(OrganizeFrom([S1 EXCEPT !.assigned = new_clusters],
                                            new_clusters, 1))

(***************************************************************************)
(* Ingestor (main.py, process_file and process_files_batch).               *)
(***************************************************************************)
\* What each of the three attempts of one process_file call meets:
\* "extract" - the read inside extract_text raises, and extract_text
\* returns None; "embed" - generate_embedding raises; "save" -
\* os.path.getmtime or save_embedding raises, after the maps were written;
\* "ok" - no failure.
FaultPlans == {<<"ok", "ok", "ok">>, <<"embed", "ok", "ok">>, <<"save", "ok", "ok">>,
               <<"embed", "embed", "embed">>, <<"save", "save", "save">>,
               <<"extract", "ok", "ok">>}

NoFault == <<"ok", "ok", "ok">>

\* analyzer.extract_text: None (here NoText) when the file cannot be read
extract_text(fs, filepath) ==
    IF filepath \in DOMAIN fs THEN MkText(fs[filepath].body, fs[filepath].doc) ELSE NoText

RECURSIVE Attempt(_, _, _, _)
\* the body of the retry loop, from attempt number n on
Attempt(S, filepath, plan, n) ==
    IF n > max_retries THEN [s |-> S, ok |-> FALSE, attempts |-> max_retries]
    ELSE LET text == IF plan[n] = "extract" THEN NoText ELSE extract_text(S.files, filepath)
         IN IF ~(text # NoText /\ StrippedLen(text.body) > MinTextLen)
            THEN [s |-> S, ok |-> FALSE, attempts |-> n]
            ELSE IF plan[n] = "embed" THEN Attempt(S, filepath, plan, n + 1)
            ELSE LET S1 == [S EXCEPT !.emb = DictSet(@, filepath, Encode(text.body)),
                                     !.cont = MapSet(@, filepath, text)]
                 IN IF plan[n] = "save" THEN Attempt(S1, filepath, plan, n + 1)
                    ELSE LET cluster_info == IF filepath \in DOMAIN S1.clus
                                             THEN S1.clus[filepath] ELSE MkCluster(-1, "")
                         IN [s |-> [S1 EXCEPT
                                      !.store = save_embedding(@, filepath, Encode(text.body), text,
                                                               S1.files[filepath].mtime),
                                      !.chunks = add_document(@, filepath, text,
                                                              cluster_info.cluster_id,
                                                              cluster_info.topic_label)],
                             ok |-> TRUE, attempts |-> n]

process_file(S, filepath, plan) ==
    IF ~Eligible(filepath) THEN [s |-> S, ok |-> FALSE, attempts |-> 0]
    ELSE LET cached == get_embedding(S.files, S.store, filepath)
         IN IF cached.hit
            THEN [s |-> [S EXCEPT !.emb = DictSet(@, filepath, cached.embedding),
                                  !.cont = MapSet(@, filepath, cached.content),
                                  !.hits = Append(@, filepath)],
                  ok |-> TRUE, attempts |-> 0]
            ELSE Attempt(S, filepath, plan, 1)

RECURSIVE BatchFrom(_, _, _, _, _)
\* the submitted tasks, run one after the other; completed counts the
\* calls that returned True
BatchFrom(S, filepaths, plan, i, completed) ==
    IF i > Len(filepaths) THEN [s |-> S, completed |-> completed]
    ELSE LET r == process_file(S, filepaths[i], plan)
         IN BatchFrom(r.s, filepaths, plan, i + 1, IF r.ok THEN completed + 1 ELSE completed)

process_files_batch(S, filepaths, plan) ==
    LET S0 == [S EXCEPT !.submitted = @ \o filepaths]
        r == BatchFrom(S0, filepaths, plan, 1, 0)
        call == [filepaths |-> filepaths, completed |-> r.completed, passes |-> 0]
    IN IF r.completed > 0
       THEN recluster_and_organize([r.s EXCEPT !.passes = @ + 1,
                                               !.batches = Append(@, [call EXCEPT !.passes = 1])])
       ELSE [r.s EXCEPT !.batches = Append(@, [call EXCEPT !.passes = 0])]

(***************************************************************************)
(* Dispatcher (main.py, event_callback).                                   *)
(***************************************************************************)
InSeq(x, q) == \E i \in 1..Len(q) : q[i] = x

\* the 'moved' branch for a source that is indexed; raised tells that
\* storage.move_embedding threw, which ends the callback
MoveIndexed(S, src, dest) ==
    LET S1 == [S EXCEPT
                 !.emb = DictSet(DictDel(@, src), dest, DictGet(S.emb, src)),
                 !.cont = IF src \in DOMAIN @ THEN MapSet(MapDel(@, src), dest, @[src]) ELSE @,
                 !.clus = IF src \in DOMAIN @ THEN MapSet(MapDel(@, src), dest, @[src]) ELSE @]
    IN IF move_embedding_raises(S.store, src, dest)
       THEN [s |-> S1, raised |-> TRUE]
       ELSE [s |-> [S1 EXCEPT
                      !.store = move_embedding(@, src, dest),
                      !.chunks = add_document(remove_document(@, src), dest,
                                              IF dest \in DOMAIN S1.cont THEN S1.cont[dest] ELSE NoText,
                                              -1, "")],
             raised |-> FALSE]

RECURSIVE SortEvents(_, _, _, _, _)
\* the loop over the events: fills files_to_process and files_to_delete
SortEvents(S, events, i, to_process, to_delete) ==
    IF i > Len(events)
    THEN [s |-> S, to_process |-> to_process, to_delete |-> to_delete, raised |-> FALSE]
    ELSE LET event == events[i]
             src == event.src_path
             etype == event.event_type
         IN IF event.is_directory THEN SortEvents(S, events, i + 1, to_process, to_delete)
            ELSE IF etype \in {"created", "modified"}
            THEN SortEvents(S, events, i + 1,
                            IF ~InSeq(src, to_process) /\ ~InSeq(src, to_delete)
                            THEN Append(to_process, src) ELSE to_process,
                            to_delete)
            ELSE IF etype = "moved"
            THEN IF src \in DictKeys(S.emb)
                 THEN LET m == MoveIndexed(S, src, event.dest_path)
                      IN IF m.raised
                         THEN [s |-> m.s, to_process |-> to_process, to_delete |-> to_delete,
                               raised |-> TRUE]
                         ELSE SortEvents(m.s, events, i + 1, to_process, to_delete)
                 ELSE SortEvents([S EXCEPT !.reingested = @ \/ event.sys = "organizer"], events, i + 1,
                                 Append(to_process, event.dest_path), to_delete)
            ELSE IF etype = "deleted"
            THEN SortEvents(S, events, i + 1, to_process,
                            IF ~InSeq(src, to_process) THEN Append(to_delete, src) ELSE to_delete)
            ELSE SortEvents(S, events, i + 1, to_process, to_delete)

\* the deletions of one pass of the loop over files_to_delete, for a thread
\* that takes them as a step of their own
DeleteEntries(S, filepath) ==
    [S EXCEPT !.emb = DictDel(@, filepath),
              !.cont = MapDel(@, filepath),
              !.clus = MapDel(@, filepath),
              !.store = delete_embedding(@, filepath),
              !.chunks = remove_document(@, filepath),
              !.deleted = @ \cup (IF filepath \in DictKeys(S.emb) /\ filepath \in DOMAIN S.cont
                                  THEN {[path |-> filepath, doc |-> S.cont[filepath].doc]}
                                  ELSE {}),
              !.passes = @ + 1]

\* one pass of the loop over files_to_delete: the deletions, then the pass
DeleteOne(S, filepath) ==
    recluster_and_organize(
        [S EXCEPT !.emb = DictDel(@, filepath),
                  !.cont = MapDel(@, filepath),
                  !.clus = MapDel(@, filepath),
                  !.store = delete_embedding(@, filepath),
                  !.chunks = remove_document(@, filepath),
                  !.deleted = @ \cup (IF filepath \in DictKeys(S.emb) /\ filepath \in DOMAIN S.cont
                                      THEN {[path |-> filepath, doc |-> S.cont[filepath].doc]}
                                      ELSE {}),
                  !.passes = @ + 1])

RECURSIVE DeleteFrom(_, _, _)
DeleteFrom(S, to_delete, i) ==
    IF i > Len(to_delete) THEN S
    ELSE DeleteFrom(DeleteOne(S, to_delete[i]), to_delete, i + 1)

event_callback(S, events, plan) ==
    LET sorted == SortEvents([S EXCEPT !.calls = Append(@, events)], events, 1, << >>, << >>)
    IN IF sorted.raised THEN [s |-> sorted.s, raised |-> TRUE]
       ELSE LET S1 == IF sorted.to_process # << >>
                      THEN process_files_batch(sorted.s, sorted.to_process, plan)
                      ELSE sorted.s
            IN [s |-> DeleteFrom(S1, sorted.to_delete, 1), raised |-> FALSE]

(***************************************************************************)
(* Monitor (monitor.py, SEFSHandler).                                      *)
(***************************************************************************)
\* hasattr(event, 'dest_path'): only a move event carries a destination
HasDest(event) == event.event_type = "moved"

\* an on_any_event that does not look src_path up in pending_moves; the
\* filter property must tell it from the real one
Filtered_dest_only(event, pending) ==
    \/ event.is_directory
    \/ InMetadata(event.src_path) \/ IsSidecar(event.src_path)
    \/ (HasDest(event) /\ (InMetadata(event.dest_path) \/ IsSidecar(event.dest_path)))
    \/ (HasDest(event) /\ is_system_operation(pending, event.dest_path))

\* the checks of on_any_event: TRUE when the event is dropped
Filtered(event, pending) ==
    \/ event.is_directory
    \/ InMetadata(event.src_path) \/ IsSidecar(event.src_path)
    \/ (HasDest(event) /\ (InMetadata(event.dest_path) \/ IsSidecar(event.dest_path)))
    \/ is_system_operation(pending, event.src_path)
    \/ (HasDest(event) /\ is_system_operation(pending, event.dest_path))

RECURSIVE UniqueFrom(_, _, _)
\* unique_events[event.src_path] = event, for each event popped from the left
UniqueFrom(queue, i, unique_events) ==
    IF i > Len(queue) THEN unique_events
    ELSE UniqueFrom(queue, i + 1, DictSet(unique_events, queue[i].src_path, queue[i]))

\* list(unique_events.values())
Deduplicate(queue) ==
    LET u == UniqueFrom(queue, 1, << >>) IN [i \in 1..Len(u) |-> u[i].v]

RECURSIVE CallbackFrom(_, _, _, _, _)
\* for event in unique_events.values(): self.callback(event); an exception
\* leaves the loop
CallbackFrom(S, events, plan, i, delivered) ==
    IF i > Len(events) THEN [s |-> S, delivered |-> delivered, raised |-> FALSE]
    ELSE LET r == event_callback(S, <<events[i]>>, plan)
         IN IF r.raised
            THEN [s |-> r.s, delivered |-> Append(delivered, events[i]), raised |-> TRUE]
            ELSE CallbackFrom(r.s, events, plan, i + 1, Append(delivered, events[i]))

_process_queue(S, queue, plan) ==
    IF queue = << >> THEN [s |-> S, delivered |-> << >>, raised |-> FALSE]
    ELSE CallbackFrom(S, Deduplicate(queue), plan, 1, << >>)

(***************************************************************************)
(* /move-file (main.py, move_file).                                        *)
(***************************************************************************)
\* target_cluster.rsplit('_', 1) and int(parts[1]): the request is refused
\* unless the name has a label and a number
BadTarget(target_cluster) == Len(target_cluster) # 2 \/ StrToInt(target_cluster[2]) = -1

\* request.get("target_cluster") when the request has no such key: None
NoTarget == << >>

\* resp is what the caller gets: "success" or "error" for the two kinds of
\* payload, "raise" when an exception leaves the handler
move_file(S, filepath, target_cluster) ==
    IF filepath = NoPath \/ filepath \notin DOMAIN S.files THEN [S EXCEPT !.resp = "error"]
    ELSE IF target_cluster = NoTarget THEN [S EXCEPT !.resp = "raise"]
    ELSE IF BadTarget(target_cluster) THEN [S EXCEPT !.resp = "error"]
    ELSE LET topic_label == target_cluster[1]
             cluster_id == StrToInt(target_cluster[2])
             target_path == MkPath(target_cluster, filepath.name)
             clus0 == MapSet(S.clus, filepath, MkCluster(cluster_id, topic_label))
         IN IF filepath # target_path
            THEN LET S1 == [S EXCEPT
                              !.emb = IF filepath \in DictKeys(@)
                                      THEN DictSet(DictDel(@, filepath), target_path,
                                                   DictGet(S.emb, filepath))
                                      ELSE @,
                              !.cont = IF filepath \in DOMAIN @
                                       THEN MapSet(MapDel(@, filepath), target_path, @[filepath])
                                       ELSE @,
                              !.clus = MapSet(MapDel(clus0, filepath), target_path, clus0[filepath]),
                              !.store = update_cluster(@, target_path, cluster_id, topic_label)]
                 IN safe_move([S1 EXCEPT !.by = "move_file", !.resp = "success"],
                              filepath, target_path)
            ELSE [S EXCEPT !.clus = clus0, !.resp = "success"]

(***************************************************************************)
(* The system.                                                             *)
(***************************************************************************)
VARIABLES
    file_embeddings,  \* main.py: path -> embedding, in insertion order
    file_contents,    \* main.py: path -> text
    file_clusters,    \* main.py: path -> (cluster_id, topic_label)
    store,            \* storage.py: the rows of table file_embeddings
    chunks,           \* rag_engine.py: the collection, by filepath
    files,            \* the files below MONITOR_ROOT: path -> doc, body, mtime
    dirs,             \* the top-level directories below MONITOR_ROOT
    pending_moves,    \* file_ops.py: FileManager.pending_moves
    clear_threads,    \* file_ops.py: the sleeping clear_pending threads
    inflight,         \* events raised by the disk, not yet seen by the handler
    event_queue,      \* monitor.py: SEFSHandler.event_queue
    debounce_timer,   \* monitor.py: seconds left on the armed Timer, -1 if none
    renamed,          \* path -> seconds since safe_move last renamed from/to it
    mclock,           \* the last modification time handed out
    nextDoc,          \* the number of the next document
    opsLeft,          \* things left to happen
    gemini_client,    \* rag_engine.py: TRUE when a Gemini client was made
    observer_alive,   \* monitor.py: FSMonitor.observer is running
    workers,          \* monitor.py: the Timer threads that are running _process_queue
    queue_age,        \* seconds since each event of event_queue was accepted
    last              \* what the last step was and did

vars == <<file_embeddings, file_contents, file_clusters, store, chunks, files, dirs,
          pending_moves, clear_threads, inflight, event_queue, debounce_timer,
          renamed, mclock, nextDoc, opsLeft, gemini_client, observer_alive, workers,
          queue_age, last>>

Idle == [kind |-> "idle", moves |-> << >>, submitted |-> << >>, hits |-> << >>,
         reingested |-> FALSE, deleted |-> {}, passes |-> 0,
         event |-> MkEvent("", NoPath, NoPath, FALSE, ""), pendingAt |-> {},
         accepted |-> FALSE, drained |-> << >>, unique |-> << >>, delivered |-> << >>,
         raised |-> FALSE, got |-> NoRow, ok |-> FALSE, calls |-> << >>, batches |-> << >>,
         args |-> << >>, before |-> EmptyMap, resp |-> "",
         windows |-> << >>, payload |-> NoPayload,
         attempts |-> 0, failed |-> << >>, age |-> 0, assigned |-> << >>]

\* the record the handlers work on, from the current state
Cur == [emb |-> file_embeddings, cont |-> file_contents, clus |-> file_clusters,
        store |-> store, chunks |-> chunks, files |-> files, dirs |-> dirs,
        pending |-> pending_moves, threads |-> clear_threads, inflight |-> inflight,
        renamed |-> renamed, moves |-> << >>, submitted |-> << >>, hits |-> << >>,
        reingested |-> FALSE, deleted |-> {}, passes |-> 0, by |-> "",
        calls |-> << >>, batches |-> << >>, resp |-> "", deny |-> FALSE, failed |-> << >>,
        assigned |-> << >>]

\* the state a handler leaves
Commit(S) ==
    /\ file_embeddings' = S.emb
    /\ file_contents' = S.cont
    /\ file_clusters' = S.clus
    /\ store' = S.store
    /\ chunks' = S.chunks
    /\ files' = S.files
    /\ dirs' = S.dirs
    /\ pending_moves' = S.pending
    /\ clear_threads' = S.threads
    /\ inflight' = S.inflight
    /\ renamed' = S.renamed

Did(kind, S) == [Idle EXCEPT !.kind = kind, !.moves = S.moves, !.submitted = S.submitted,
                             !.hits = S.hits, !.reingested = S.reingested,
                             !.deleted = S.deleted, !.passes = S.passes,
                             !.calls = S.calls, !.batches = S.batches, !.resp = S.resp,
                             !.failed = S.failed, !.assigned = S.assigned]

\* the monitored directory is empty when the application starts; n things
\* are going to happen
StartKey(n, key) ==
    /\ file_embeddings = << >>
    /\ file_contents = EmptyMap
    /\ file_clusters = EmptyMap
    /\ store = EmptyMap
    /\ chunks = EmptyMap
    /\ files = EmptyMap
    /\ dirs = {}
    /\ pending_moves = {}
    /\ clear_threads = {}
    /\ inflight = << >>
    /\ event_queue = << >>
    /\ debounce_timer = -1
    /\ renamed = EmptyMap
    /\ mclock = 0
    /\ nextDoc = 1
    /\ opsLeft = n
    /\ gemini_client = key
    /\ observer_alive = TRUE
    /\ workers = << >>
    /\ queue_age = << >>
    /\ last = Idle

\* GEMINI_API_KEY is not set
Start(n) == StartKey(n, FALSE)

Init == Start(MaxOps)

Raise(event) == Append(inflight, [ev |-> event, age |-> 0])

\* the user drops a new file into the root
UserCreate(name, body) ==
    LET p == MkPath(MONITOR_ROOT, name)
    IN /\ opsLeft > 0 /\ inflight = << >>
       /\ p \notin DOMAIN files
       /\ files' = MapSet(files, p, [doc |-> nextDoc, body |-> body, mtime |-> mclock + WriteGap])
       /\ mclock' = mclock + WriteGap
       /\ nextDoc' = nextDoc + 1
       /\ inflight' = Raise(MkEvent("created", p, NoPath, FALSE, ""))
       /\ opsLeft' = opsLeft - 1
       /\ last' = Idle
       /\ UNCHANGED <<workers, queue_age, observer_alive, gemini_client, file_embeddings, file_contents, file_clusters, store, chunks, dirs,
                      pending_moves, clear_threads, event_queue, debounce_timer, renamed>>

\* the user saves a file, with new text or with the text it had
UserModify(p, body) ==
    /\ opsLeft > 0 /\ inflight = << >>
    /\ p \in DOMAIN files
    /\ files' = [files EXCEPT ![p].body = body, ![p].mtime = mclock + WriteGap]
    /\ mclock' = mclock + WriteGap
    /\ inflight' = Raise(MkEvent("modified", p, NoPath, FALSE, ""))
    /\ opsLeft' = opsLeft - 1
    /\ last' = Idle
    /\ UNCHANGED <<workers, queue_age, observer_alive, gemini_client, file_embeddings, file_contents, file_clusters, store, chunks, dirs,
                   pending_moves, clear_threads, event_queue, debounce_timer, renamed,
                   nextDoc>>

\* the user removes a file
UserDelete(p) ==
    /\ opsLeft > 0 /\ inflight = << >>
    /\ p \in DOMAIN files
    /\ files' = MapDel(files, p)
    /\ inflight' = Raise(MkEvent("deleted", p, NoPath, FALSE, ""))
    /\ opsLeft' = opsLeft - 1
    /\ last' = Idle
    /\ UNCHANGED <<workers, queue_age, observer_alive, gemini_client, file_embeddings, file_contents, file_clusters, store, chunks, dirs,
                   pending_moves, clear_threads, event_queue, debounce_timer, renamed,
                   mclock, nextDoc>>

\* the user moves a file into the root or into an existing directory
UserMove(p, d) ==
    LET q == MkPath(d, p.name)
    IN /\ opsLeft > 0 /\ inflight = << >>
       /\ p \in DOMAIN files
       /\ d \in dirs \cup {MONITOR_ROOT}
       /\ q \notin DOMAIN files
       /\ files' = MapSet(MapDel(files, p), q, files[p])
       /\ inflight' = Raise(MkEvent("moved", p, q, FALSE, ""))
       /\ opsLeft' = opsLeft - 1
       /\ last' = Idle
       /\ UNCHANGED <<workers, queue_age, observer_alive, gemini_client, file_embeddings, file_contents, file_clusters, store, chunks, dirs,
                      pending_moves, clear_threads, event_queue, debounce_timer, renamed,
                      mclock, nextDoc>>

\* events that change no document: a directory is touched, a database file
\* is moved into the metadata directory, a write-ahead log is written
OtherEvents == {MkEvent("modified", MkPath(MONITOR_ROOT, "a.txt"), NoPath, TRUE, ""),
                MkEvent("moved", MkPath(MONITOR_ROOT, "tmp.db"), DbPath, FALSE, ""),
                MkEvent("modified", WalPath, NoPath, FALSE, "")}

OtherChange(event) ==
    /\ opsLeft > 0 /\ inflight = << >>
    /\ inflight' = Raise(event)
    /\ opsLeft' = opsLeft - 1
    /\ last' = Idle
    /\ UNCHANGED <<workers, queue_age, observer_alive, gemini_client, file_embeddings, file_contents, file_clusters, store, chunks, files, dirs,
                   pending_moves, clear_threads, event_queue, debounce_timer, renamed,
                   mclock, nextDoc>>

\* the observer thread hands the oldest event to SEFSHandler.on_any_event
Observe ==
    /\ inflight # << >>
    /\ LET event == Head(inflight).ev
           drop == Filtered(event, pending_moves)
       IN /\ event_queue' = IF drop THEN event_queue ELSE Append(event_queue, event)
          /\ debounce_timer' = IF drop THEN debounce_timer ELSE debounce_seconds
          /\ last' = [Idle EXCEPT !.kind = "deliver", !.event = event,
                                  !.pendingAt = pending_moves, !.accepted = ~drop]
    /\ inflight' = Tail(inflight)
    /\ UNCHANGED <<observer_alive, gemini_client, file_embeddings, file_contents, file_clusters, store, chunks, files, dirs,
                   pending_moves, clear_threads, renamed, mclock, nextDoc, opsLeft>>

ObserverDeliver == Observe /\ UNCHANGED <<workers, queue_age>>

\* the debounce Timer expires: SEFSHandler._process_queue, with the faults
\* it is going to meet
Expire(plan, deny) ==
    /\ debounce_timer = 0
    /\ (plan # NoFault \/ deny) => opsLeft > 0
    /\ \E r \in {_process_queue([Cur EXCEPT !.deny = deny], event_queue, plan)} :
          /\ Commit(r.s)
          /\ last' = [Did("batch", r.s) EXCEPT !.drained = event_queue,
                                                !.unique = Deduplicate(event_queue),
                                                !.delivered = r.delivered,
                                                !.raised = r.raised]
    /\ event_queue' = << >>
    /\ debounce_timer' = -1
    /\ opsLeft' = IF plan # NoFault \/ deny THEN opsLeft - 1 ELSE opsLeft
    /\ UNCHANGED <<workers, queue_age, observer_alive, gemini_client, mclock, nextDoc>>

\* an expiry in which every rename succeeds
TimerFire(plan) == Expire(plan, FALSE)

\* requests the UI can send: an existing file or a missing one, dragged onto
\* a folder on disk, onto a cluster name that has no folder yet, or onto a
\* malformed name
\* the target_cluster of a request: the name of a folder, of a folder that
\* does not exist yet, a name with a suffix that is no number, a name
\* without '_', or none
MoveTargets == dirs \cup {<<"Quantum_Entanglement", "0">>, <<"Topic", "x">>, <<"Misc">>, NoTarget}

\* POST /move-file, with the fault it is going to meet
Request(filepath, target_cluster, deny) ==
    /\ opsLeft > 0
    /\ LET S == move_file([Cur EXCEPT !.deny = deny], filepath, target_cluster)
       IN /\ Commit(S)
          /\ last' = Did("move_file", S)
    /\ opsLeft' = opsLeft - 1
    /\ UNCHANGED <<workers, queue_age, observer_alive, gemini_client, event_queue, debounce_timer, mclock, nextDoc>>

\* a request in which the rename succeeds
MoveFileRequest(filepath, target_cluster) == Request(filepath, target_cluster, FALSE)

\* a clear_pending thread wakes up
ClearPending(th) ==
    /\ th \in clear_threads
    /\ th.left = 0
    /\ pending_moves' = pending_moves \ {th.dst, th.src}
    /\ clear_threads' = clear_threads \ {th}
    /\ last' = Idle
    /\ UNCHANGED <<workers, queue_age, observer_alive, gemini_client, file_embeddings, file_contents, file_clusters, store, chunks, files, dirs,
                   inflight, event_queue, debounce_timer, renamed, mclock, nextDoc,
                   opsLeft>>

\* one second passes; nothing that is due is left waiting
Elapse ==
    /\ debounce_timer # 0
    /\ \A th \in clear_threads : th.left > 0
    /\ \A i \in 1..Len(inflight) : inflight[i].age < MaxLatency
    /\ debounce_timer > 0 \/ clear_threads # {} \/ inflight # << >> \/ DOMAIN renamed # {}
    /\ debounce_timer' = IF debounce_timer > 0 THEN debounce_timer - 1 ELSE debounce_timer
    /\ clear_threads' = {[th EXCEPT !.left = @ - 1] : th \in clear_threads}
    /\ inflight' = [i \in 1..Len(inflight) |-> [inflight[i] EXCEPT !.age = @ + 1]]
    /\ renamed' = [p \in {q \in DOMAIN renamed : renamed[q] + 1 < SettleSeconds} |-> renamed[p] + 1]
    /\ last' = Idle
    /\ UNCHANGED <<observer_alive, gemini_client, file_embeddings, file_contents, file_clusters, store, chunks, files, dirs,
                   pending_moves, event_queue, mclock, nextDoc, opsLeft>>

Tick == Elapse /\ UNCHANGED <<workers, queue_age>>

\* the filepath of a request: a file, a path with no file, or none
AllPaths == (DOMAIN files) \cup {MkPath(MONITOR_ROOT, "gone.txt"), NoPath}

Next ==
    \/ \E name \in Names, body \in Bodies : UserCreate(name, body)
    \/ \E p \in DOMAIN files, body \in Bodies : UserModify(p, body)
    \/ \E p \in DOMAIN files : UserDelete(p)
    \/ \E p \in DOMAIN files, d \in dirs \cup {MONITOR_ROOT} : UserMove(p, d)
    \/ \E event \in OtherEvents : OtherChange(event)
    \/ ObserverDeliver
    \/ \E plan \in FaultPlans : TimerFire(plan)
    \/ \E filepath \in AllPaths, target_cluster \in MoveTargets :
          MoveFileRequest(filepath, target_cluster)
    \/ \E th \in clear_threads : ClearPending(th)
    \/ Tick

Spec == Init /\ [][Next]_vars

(***************************************************************************)
(* Bursts: longer runs of a user who works on documents about one topic,   *)
(* saves, and moves files around, with no fault in the ingestor.           *)
(***************************************************************************)
NextBurst ==
    \/ \E name \in Names : UserCreate(name, "entangle")
    \/ \E p \in DOMAIN files : UserModify(p, files[p].body)
    \/ \E p \in DOMAIN files, d \in dirs \cup {MONITOR_ROOT} : UserMove(p, d)
    \/ ObserverDeliver
    \/ TimerFire(NoFault)
    \/ \E th \in clear_threads : ClearPending(th)
    \/ Tick

SpecBurst == Start(MaxBurstOps) /\ [][NextBurst]_vars

(***************************************************************************)
(* The Monitor at work: every kind of event and of system move, on         *)
(* documents about one topic, with no fault in the ingestor.               *)
(***************************************************************************)
NextMonitor ==
    \/ \E name \in Names : UserCreate(name, "entangle")
    \/ \E p \in DOMAIN files : UserModify(p, files[p].body)
    \/ \E p \in DOMAIN files : UserDelete(p)
    \/ \E p \in DOMAIN files, d \in dirs \cup {MONITOR_ROOT} : UserMove(p, d)
    \/ \E event \in OtherEvents : OtherChange(event)
    \/ ObserverDeliver
    \/ TimerFire(NoFault)
    \/ \E filepath \in DOMAIN files, target_cluster \in MoveTargets :
          MoveFileRequest(filepath, target_cluster)
    \/ \E th \in clear_threads : ClearPending(th)
    \/ Tick

SpecMonitor == Start(MaxMonitorOps) /\ [][NextMonitor]_vars

(***************************************************************************)
(* The cache: process_file is called for one path, on every combination of *)
(* a file on disk and a row in the Store, as the application finds them    *)
(* when it starts on a directory it has served before.                     *)
(***************************************************************************)
ProbePath == MkPath(MONITOR_ROOT, "a.txt")

ProbeBodies == {"entangle", "neural"}

\* the disk: no file at ProbePath, or one with some text and mtime
ProbeFiles ==
    {EmptyMap} \cup
    {MapSet(EmptyMap, ProbePath, [doc |-> 1, body |-> b, mtime |-> m]) :
        b \in ProbeBodies, m \in 0..MaxMtime}

\* the Store: no row for ProbePath, or the row of an earlier ingestion
ProbeRows ==
    {EmptyMap} \cup
    {save_embedding(EmptyMap, ProbePath, Encode(b), MkText(b, 1), m) :
        b \in ProbeBodies, m \in 0..MaxMtime}

InitCache ==
    /\ file_embeddings = << >>
    /\ file_contents = EmptyMap
    /\ file_clusters = EmptyMap
    /\ store \in ProbeRows
    /\ chunks = EmptyMap
    /\ files \in ProbeFiles
    /\ dirs = {}
    /\ pending_moves = {}
    /\ clear_threads = {}
    /\ inflight = << >>
    /\ event_queue = << >>
    /\ debounce_timer = -1
    /\ renamed = EmptyMap
    /\ mclock = MaxMtime
    /\ nextDoc = 2
    /\ opsLeft = MaxProbes
    /\ gemini_client = FALSE
    /\ observer_alive = TRUE
    /\ workers = << >>
    /\ queue_age = << >>
    /\ last = Idle

\* process_file(ProbePath); got is what get_embedding answers to the call
CacheProbe ==
    /\ opsLeft > 0
    /\ LET r == process_file(Cur, ProbePath, NoFault)
       IN /\ Commit(r.s)
          /\ last' = [Did("probe", r.s) EXCEPT
                        !.got = get_embedding(files, store, ProbePath),
                        !.ok = r.ok]
    /\ opsLeft' = opsLeft - 1
    /\ UNCHANGED <<workers, queue_age, observer_alive, gemini_client, event_queue, debounce_timer, mclock, nextDoc>>

SpecCache == InitCache /\ [][CacheProbe]_vars

(***************************************************************************)
(* Properties.                                                             *)
(***************************************************************************)
\* no event is on its way or queued
Quiescent == inflight = << >> /\ event_queue = << >>

\* the last step was one debounce expiry that made exactly one callback
OneCallback == last.kind = "batch" /\ Len(last.delivered) = 1

\* every document the user created is still on disk: none was deleted and
\* none was overwritten by a file of the same name
NoneLost == Cardinality(DOMAIN files) = nextDoc - 1

\* C1 - Fixed point: right after an ingestion batch and its organize pass, a
\* second organize pass moves no file and leaves every path as it is
\* (stated for the runs that lost no document).
C1_FixedPoint ==
    (OneCallback /\ last.submitted # << >> /\ last.passes = 1 /\ NoneLost)
    => LET again == recluster_and_organize(Cur)
       IN again.moves = << >> /\ DictKeys(again.emb) = DictKeys(file_embeddings)

\* C2 - Folder-label agreement: when no event is outstanding, every path of
\* file_clusters that names a file on disk and has a cluster id other than
\* -1 lies in the folder named "{topic_label}_{cluster_id}".
C2_FolderLabelAgreement ==
    Quiescent =>
        \A p \in (DOMAIN file_clusters) \cap (DOMAIN files) :
            file_clusters[p].cluster_id # -1 =>
                ParentName(p) = <<file_clusters[p].topic_label,
                                  IntToStr(file_clusters[p].cluster_id)>>

\* C3 - Map coherence: after every completed cycle (a debounce expiry or a
\* /move-file request), file_embeddings and file_contents have the same
\* keys and file_clusters has at least those keys.
C3_MapCoherence ==
    last.kind \in {"batch", "move_file"} =>
        /\ DictKeys(file_embeddings) = DOMAIN file_contents
        /\ DictKeys(file_embeddings) \subseteq DOMAIN file_clusters

\* C4 - Self-event suppression window: a path that safe_move renamed from or
\* to less than T_settle seconds ago is in pending_moves.
C4_SuppressionWindow == \A p \in DOMAIN renamed : p \in pending_moves

\* C5 - Self-move ignored: no callback submits a file to process_file
\* because of the event raised by the safe_move with which the Organizer
\* relocated that file.
C5_NoSelfReingestion == ~last.reingested

\* what the Monitor has to ignore: a directory event, a path in the metadata
\* directory or ending in .db-journal/.db-wal, a path in pending_moves
MustIgnore(event, pending) ==
    \/ event.is_directory
    \/ \E path \in {event.src_path, event.dest_path} :
          \/ InMetadata(path)
          \/ IsSidecar(path)
          \/ path \in pending

\* C6 - Monitor filter: on_any_event leaves event_queue as it is when the
\* event that arrives is one the Monitor has to ignore, and a debounce
\* expiry hands the callback nothing but events taken from event_queue.
C6_MonitorFilter ==
    [][/\ (last'.kind = "deliver" /\ MustIgnore(Head(inflight).ev, pending_moves))
           => event_queue' = event_queue
       /\ last'.kind = "batch"
           => \A j \in 1..Len(last'.delivered) : InSeq(last'.delivered[j], event_queue)]_vars

\* the event of a system move arrived while its destination was pending,
\* and was dropped
C6_Witness ==
    /\ last.kind = "deliver" /\ ~last.accepted
    /\ ~last.event.is_directory
    /\ last.event.sys # ""
    /\ last.event.dest_path \in last.pendingAt

\* the file and the row of ProbePath agree: both exist and their mtimes are
\* at most one second apart
Fresh(fs, st) ==
    /\ ProbePath \in DOMAIN fs
    /\ ProbePath \in DOMAIN st
    /\ fs[ProbePath].mtime - st[ProbePath].last_modified <= 1
    /\ st[ProbePath].last_modified - fs[ProbePath].mtime <= 1

\* C7 - Cache freshness: get_embedding answers None when the row is missing,
\* the file is absent or the two mtimes are more than one second apart, and
\* the stored embedding, content and mtime otherwise; process_file takes the
\* cache-hit branch only in the second case.
C7_CacheFreshness ==
    [][last'.kind = "probe" =>
         /\ ~Fresh(files, store) => last'.got = NoRow
         /\ Fresh(files, store) =>
                /\ last'.got.hit
                /\ last'.got.embedding = store[ProbePath].embedding
                /\ last'.got.content = store[ProbePath].content
                /\ last'.got.last_modified = store[ProbePath].last_modified
         /\ last'.hits # << >> => Fresh(files, store)
         /\ (Fresh(files, store) /\ Eligible(ProbePath)) => last'.hits = <<ProbePath>>]_vars

\* process_file was served from the cache for a file whose mtime is one
\* second away from the stored one
C7_Witness ==
    /\ last.kind = "probe" /\ last.hits = <<ProbePath>> /\ last.got.hit
    /\ ProbePath \in DOMAIN files
    /\ AbsDiff(files[ProbePath].mtime, last.got.last_modified) = 1

\* C8 - Delete cascade: once the 'deleted' event of an indexed document is
\* handled, its path is in none of the three maps and neither the Store nor
\* the chunk index holds anything computed from that document.
C8_DeleteCascade ==
    \A d \in last.deleted :
        /\ \A p \in DOMAIN file_contents : file_contents[p].doc # d.doc
        /\ d.path \notin DictKeys(file_embeddings) \ DOMAIN file_contents
        /\ d.path \notin (DOMAIN file_clusters) \ DOMAIN file_contents
        /\ \A k \in DOMAIN store : store[k].content.doc # d.doc
        /\ \A k \in DOMAIN chunks : chunks[k].text.doc # d.doc

\* C9 - Empty-folder removal: after a callback that ran an organize pass, in
\* particular after a handled deletion, no top-level directory is empty.
C9_NoEmptyFolder ==
    (OneCallback /\ last.passes >= 1) => \A d \in dirs : ~DirEmpty(files, d)

\* the events of queue q that carry src_path p
EventsFor(q, p) == {i \in 1..Len(q) : q[i].src_path = p}

\* C10 - Per-path deduplication: of the events drained at one expiry that
\* share a src_path, exactly one is delivered to the dispatcher, and it is
\* the one that was enqueued last.
C10_LastEventPerPath ==
    last.kind = "batch" =>
        \A i \in 1..Len(last.drained) :
            LET p == last.drained[i].src_path
                latest == CHOOSE k \in EventsFor(last.drained, p) :
                              \A m \in EventsFor(last.drained, p) : m <= k
            IN /\ Cardinality(EventsFor(last.delivered, p)) = 1
               /\ \A j \in EventsFor(last.delivered, p) :
                      last.delivered[j] = last.drained[latest]


\* the files a list of events asks to ingest
ToIngest(events) ==
    {events[i].src_path : i \in {j \in 1..Len(events) :
                                   events[j].event_type \in {"created", "modified"}}}

\* C11 - Single-call batch delivery: at a debounce expiry with a non-empty
\* queue the callback is invoked exactly once, with the whole list of
\* deduplicated events, and the created/modified files of the window go to
\* process_file in one process_files_batch call.
C11_SingleCallDelivery ==
    (last.kind = "batch" /\ last.drained # << >>)
        => /\ last.calls = <<last.unique>>
           /\ (ToIngest(last.unique) # {} => Len(last.batches) = 1)

\* C12 - One reorganize per batch: every process_files_batch call runs
\* recluster_and_organize exactly once after its tasks, whatever the number
\* of files that succeeded, zero included.
C12_OneReorganizePerBatch ==
    \A i \in 1..Len(last.batches) : last.batches[i].passes = 1

(***************************************************************************)
(* The Store alone: rows are saved, labelled, moved and deleted under      *)
(* three keys.                                                             *)
(***************************************************************************)
StorePaths == {MkPath(MONITOR_ROOT, "a.txt"), MkPath(MONITOR_ROOT, "b.txt"),
               MkPath(<<"Quantum_Entanglement", "0">>, "a.txt")}

StoreOp(kind, args, st) ==
    /\ opsLeft > 0
    /\ store' = st
    /\ last' = [Idle EXCEPT !.kind = kind, !.args = args, !.before = store,
                            !.raised = (kind = "move_embedding"
                                        /\ move_embedding_raises(store, args[1], args[2]))]
    /\ opsLeft' = opsLeft - 1
    /\ UNCHANGED <<workers, queue_age, observer_alive, gemini_client, file_embeddings, file_contents, file_clusters, chunks, files, dirs,
                   pending_moves, clear_threads, inflight, event_queue, debounce_timer,
                   renamed, mclock, nextDoc>>

StoreSave(filepath, body, mtime) ==
    StoreOp("save_embedding", <<filepath>>,
            save_embedding(store, filepath, Encode(body), MkText(body, 1), mtime))

StoreLabel(filepath) ==
    StoreOp("update_cluster", <<filepath>>,
            update_cluster(store, filepath, 0, "Quantum_Entanglement"))

\* the statement raises before the commit, or the row is re-keyed
StoreMove(src, dest) ==
    StoreOp("move_embedding", <<src, dest>>,
            IF move_embedding_raises(store, src, dest) THEN store
            ELSE move_embedding(store, src, dest))

StoreDelete(filepath) ==
    StoreOp("delete_embedding", <<filepath>>, delete_embedding(store, filepath))

NextStore ==
    \/ \E p \in StorePaths, b \in ProbeBodies, t \in {0, MaxMtime} : StoreSave(p, b, t)
    \/ \E p \in StorePaths : StoreLabel(p)
    \/ \E p \in StorePaths, q \in StorePaths : StoreMove(p, q)
    \/ \E p \in StorePaths : StoreDelete(p)

SpecStore == Start(MaxStoreOps) /\ [][NextStore]_vars

\* C13 - Store.move keeps the data: after move_embedding(src, dst) on a
\* Store with a row for src, the row is found under dst with the same
\* fields, no row is keyed src, and every other row is as it was; also when
\* a row keyed dst existed before.
C13_StoreMoveKeepsData ==
    LET src == last.args[1]
        dst == last.args[2]
    IN (last.kind = "move_embedding" /\ src \in DOMAIN last.before /\ src # dst)
         => /\ dst \in DOMAIN store
            /\ store[dst] = last.before[src]
            /\ src \notin DOMAIN store
            /\ \A p \in (DOMAIN last.before) \ {src, dst} :
                   p \in DOMAIN store /\ store[p] = last.before[p]
            /\ DOMAIN store \subseteq (DOMAIN last.before) \cup {dst}
\* C14 - Poison isolation: an exception raised while one event or one file
\* is handled does not keep the remaining events of the same debounce
\* window from being handled: the callback is invoked for every one of the
\* deduplicated events, whether or not an earlier invocation raised.
C14_PoisonIsolation ==
    last.kind = "batch"
        => \A i \in 1..Len(last.unique) :
               \E j \in 1..Len(last.calls) : last.calls[j] = <<last.unique[i]>>
\* C15 - Existence and freshness of indexed paths: in every quiescent state
\* every path of file_embeddings and file_contents is a file on disk, and
\* where the Store has a row for it, the file's mtime is within one second
\* of the row's last_modified.
C15_IndexedPathsFresh ==
    Quiescent =>
        \A p \in DictKeys(file_embeddings) \cup DOMAIN file_contents :
            /\ p \in DOMAIN files
            /\ p \in DOMAIN store
                   => AbsDiff(files[p].mtime, store[p].last_modified) <= MtimeTolerance
\* C16 - Identical key sets: in every quiescent state every key of
\* file_clusters is a key of file_embeddings and of file_contents.
C16_ClusterKeysIndexed ==
    Quiescent =>
        DOMAIN file_clusters \subseteq DictKeys(file_embeddings) \cap DOMAIN file_contents
\* a request with a missing or unknown filepath or a malformed target_cluster
BadRequest(filepath, target_cluster) ==
    \/ filepath = NoPath \/ filepath \notin DOMAIN files
    \/ target_cluster = NoTarget \/ BadTarget(target_cluster)

\* C17 - /move-file bad input: a request whose filepath is missing or names
\* no file, or whose target_cluster is absent, has no '_' or has a suffix
\* that is no integer, is answered with the error payload, without an
\* exception, and leaves the three maps, the Store and the disk unchanged.
C17_MoveFileBadInput ==
    [][\A filepath \in AllPaths, target_cluster \in MoveTargets :
          (BadRequest(filepath, target_cluster) /\ MoveFileRequest(filepath, target_cluster))
              => /\ last'.resp = "error"
                 /\ UNCHANGED <<file_embeddings, file_contents, file_clusters, store,
                                files, dirs>>]_vars
(***************************************************************************)
(* chunk_text alone, on a text of any number of words up to MaxWords.      *)
(***************************************************************************)
InitWindows ==
    /\ file_embeddings = << >>
    /\ file_contents = EmptyMap
    /\ file_clusters = EmptyMap
    /\ store = EmptyMap
    /\ chunks = EmptyMap
    /\ files = EmptyMap
    /\ dirs = {}
    /\ pending_moves = {}
    /\ clear_threads = {}
    /\ inflight = << >>
    /\ event_queue = << >>
    /\ debounce_timer = -1
    /\ renamed = EmptyMap
    /\ mclock = 0
    /\ nextDoc = 1
    /\ opsLeft = 1
    /\ gemini_client = FALSE
    /\ observer_alive = TRUE
    /\ workers = << >>
    /\ queue_age = << >>
    /\ \E n \in 0..MaxWords : last = [Idle EXCEPT !.args = <<n>>]

\* the loop of chunk_text over the words of the text
ChunkWords ==
    /\ opsLeft > 0
    /\ last' = [last EXCEPT !.kind = "chunk_text", !.windows = WindowStarts(last.args[1])]
    /\ opsLeft' = opsLeft - 1
    /\ UNCHANGED <<workers, queue_age, observer_alive, gemini_client, file_embeddings, file_contents, file_clusters, store, chunks, files, dirs,
                   pending_moves, clear_threads, inflight, event_queue, debounce_timer,
                   renamed, mclock, nextDoc>>

SpecWindows == InitWindows /\ [][ChunkWords]_vars

\* ceil(a / b) for b > 0
CeilDiv(a, b) == IF a >= 0 THEN (a + b - 1) \div b ELSE 0 - ((0 - a) \div b)

Max(a, b) == IF a >= b THEN a ELSE b

\* C19 - Chunking law: for a text of N words the number of windows that
\* chunk_text iterates over, before the minimum-length filter, is
\* max(1, ceil((N - O) / (W - O))) with W = CHUNK_SIZE and O = CHUNK_OVERLAP.
C19_ChunkingLaw ==
    last.kind = "chunk_text"
        => Len(last.windows) = Max(1, CeilDiv(last.args[1] - CHUNK_OVERLAP,
                                              CHUNK_SIZE - CHUNK_OVERLAP))
(***************************************************************************)
(* The chunk index alone: documents of zero to three chunks are added,     *)
(* replaced by later versions, labelled and removed under two paths.       *)
(***************************************************************************)
ChunkPaths == {MkPath(MONITOR_ROOT, "a.txt"), MkPath(MONITOR_ROOT, "b.txt")}

ChunkBodies == {"tiny", "entangle", "essay", "report", "book"}

ChunkOp(kind, args, ch, payload) ==
    /\ opsLeft > 0
    /\ chunks' = ch
    /\ last' = [Idle EXCEPT !.kind = kind, !.args = args, !.before = chunks,
                            !.payload = payload]
    /\ opsLeft' = opsLeft - 1
    /\ UNCHANGED <<workers, queue_age, observer_alive, gemini_client, file_embeddings, file_contents, file_clusters, store, files, dirs,
                   pending_moves, clear_threads, inflight, event_queue, debounce_timer,
                   renamed, mclock>>

\* a new version of the document at filepath is indexed
ChunkAdd(filepath, body) ==
    /\ ChunkOp("add_document", <<filepath, MkText(body, nextDoc)>>,
               add_document(chunks, filepath, MkText(body, nextDoc), -1, ""), NoPayload)
    /\ nextDoc' = nextDoc + 1

ChunkRemove(filepath) ==
    /\ ChunkOp("remove_document", <<filepath>>, remove_document(chunks, filepath), NoPayload)
    /\ UNCHANGED nextDoc

ChunkLabel(filepath) ==
    /\ ChunkOp("update_cluster_info", <<filepath>>,
               update_cluster_info(chunks, filepath, 0, "Quantum_Entanglement"), NoPayload)
    /\ UNCHANGED nextDoc

\* RAGEngine.ask(query, cluster_id)
Ask(query, cluster_id, hits, llm_ok) ==
    /\ hits \in SearchResults(chunks, cluster_id)
    /\ ChunkOp("ask", <<query, cluster_id>>, chunks,
               ask(chunks, query, hits, gemini_client, llm_ok))
    /\ UNCHANGED nextDoc

\* the key is set or not when the engine is made
NextChunks ==
    \/ \E p \in ChunkPaths, b \in ChunkBodies : ChunkAdd(p, b)
    \/ \E p \in ChunkPaths : ChunkRemove(p)
    \/ \E p \in ChunkPaths : ChunkLabel(p)
    \/ \E query \in {"what is tunneling?"}, cluster_id \in {NoFilter, 0}, llm_ok \in BOOLEAN :
          \E hits \in SUBSET DOMAIN chunks : Ask(query, cluster_id, hits, llm_ok)

SpecChunks == (\E key \in BOOLEAN : StartKey(MaxChunkOps, key)) /\ [][NextChunks]_vars

\* the ids of the collection that start with "{path}__chunk_"
IdsOf(ch, path) == {id \in DOMAIN ch : id.filepath = path}

C18_AskWithoutKey ==
    (last.kind = "ask" /\ ~gemini_client)
        => /\ last.payload.error = "API_KEY_MISSING"
           /\ last.payload.sources = {}

\* C21 - Store follows the Organizer: after an organize pass relocated a
\* document from path to target, the Store has a row keyed target with the
\* document's embedding and content and the new cluster_id and topic_label,
\* and no row keyed by the old path.
C21_StoreFollowsOrganizer ==
    (OneCallback /\ Len(last.moves) = 1 /\ last.moves[1][2] \in DOMAIN file_clusters)
        => LET path == last.moves[1][1]
               target == last.moves[1][2]
           IN /\ target \in DOMAIN store
              /\ store[target].embedding = DictGet(file_embeddings, target)
              /\ store[target].content = file_contents[target]
              /\ store[target].cluster_id = file_clusters[target].cluster_id
              /\ store[target].topic_label = file_clusters[target].topic_label
              /\ path \notin DOMAIN store

(***************************************************************************)
(* process_file alone, for one path, under every fault plan.               *)
(***************************************************************************)
\* the disk: no file at ProbePath, or one with a long text, a short one, a
\* single word of ten letters, or six letters with spaces between them
RetryFiles ==
    {EmptyMap} \cup
    {MapSet(EmptyMap, ProbePath, [doc |-> 1, body |-> b, mtime |-> m]) :
        b \in {"entangle", "tiny", "abcdefghij", "a b c d e f"}, m \in 0..MaxMtime}

InitRetry ==
    /\ file_embeddings = << >>
    /\ file_contents = EmptyMap
    /\ file_clusters = EmptyMap
    /\ store \in ProbeRows
    /\ chunks = EmptyMap
    /\ files \in RetryFiles
    /\ dirs = {}
    /\ pending_moves = {}
    /\ clear_threads = {}
    /\ inflight = << >>
    /\ event_queue = << >>
    /\ debounce_timer = -1
    /\ renamed = EmptyMap
    /\ mclock = MaxMtime
    /\ nextDoc = 2
    /\ opsLeft = MaxRetryOps
    /\ gemini_client = FALSE
    /\ observer_alive = TRUE
    /\ workers = << >>
    /\ queue_age = << >>
    /\ last = Idle

\* process_file(ProbePath) under a fault plan; args is the plan, before the
\* text on disk, got the answer of the cache
RetryProbe(plan) ==
    /\ opsLeft > 0
    /\ LET r == process_file(Cur, ProbePath, plan)
       IN /\ Commit(r.s)
          /\ last' = [Did("process_file", r.s) EXCEPT
                        !.args = plan,
                        !.before = extract_text(files, ProbePath),
                        !.got = get_embedding(files, store, ProbePath),
                        !.ok = r.ok,
                        !.attempts = r.attempts]
    /\ opsLeft' = opsLeft - 1
    /\ UNCHANGED <<workers, queue_age, observer_alive, gemini_client, event_queue, debounce_timer, mclock, nextDoc>>

SpecRetry == InitRetry /\ [][\E plan \in FaultPlans : RetryProbe(plan)]_vars

\* C27 - Retry: without a fresh cache entry process_file makes at most
\* three attempts; an attempt 1 or 2 in which text extraction or embedding
\* fails is followed by another attempt; and False is returned only after
\* three failed attempts, or when the text of the file is too short.
C27_Retry ==
    (last.kind = "process_file" /\ ~last.got.hit)
        => /\ last.attempts <= max_retries
           /\ \A n \in 1..(max_retries - 1) :
                  (last.attempts >= n /\ last.args[n] \in {"extract", "embed"}
                   /\ StrippedLen(last.before.body) > MinTextLen)
                      => last.attempts > n
           /\ ~last.ok
                  => \/ last.attempts = max_retries
                     \/ StrippedLen(last.before.body) <= MinTextLen

(***************************************************************************)
(* Moves that can fail: documents of one topic are created, organized and  *)
(* dragged by /move-file, and a rename may be refused.                     *)
(***************************************************************************)


NextMoves ==
    \/ \E name \in Names : UserCreate(name, "entangle")
    \/ ObserverDeliver
    \/ \E deny \in BOOLEAN : Expire(NoFault, deny)
    \/ \E filepath \in DOMAIN files, deny \in BOOLEAN :
          \E target_cluster \in dirs \cup {<<"Quantum_Entanglement", "0">>,
                                           <<"Neural_Network", "1">>} :
              Request(filepath, target_cluster, deny)
    \/ \E th \in clear_threads : ClearPending(th)
    \/ Tick

SpecMoves == Start(MaxMoveOps) /\ [][NextMoves]_vars

\* C28 - Move failure: when the rename inside safe_move(src, dst) fails in
\* an organize pass or a /move-file request, src and dst are not left in
\* pending_moves and, once the operation has returned, the maps name an
\* indexed document by src, where the file is, and not by dst.
C28_MoveFailure ==
    (last.kind \in {"batch", "move_file"} /\ Len(last.failed) = 1)
        => LET src == last.failed[1][1]
               dst == last.failed[1][2]
               named == DictKeys(file_embeddings) \cup DOMAIN file_contents
                            \cup DOMAIN file_clusters
           IN /\ src \notin pending_moves
              /\ dst \notin pending_moves
              /\ (src \in DOMAIN files /\ dst \notin DOMAIN files
                  /\ {src, dst} \cap DictKeys(file_embeddings) # {})
                     => src \in named /\ dst \notin named

\* C29 - Pending set drains: every path in pending_moves is one that a
\* sleeping clear_pending thread discards within the settle delay, after a
\* rename that succeeded and after one that failed alike; and when no
\* rename was made for T_settle and no thread is left sleeping, the set is
\* empty.
C29_PendingDrains ==
    /\ \A p \in pending_moves :
           \E th \in clear_threads : p \in {th.src, th.dst} /\ th.left \in 0..SettleSeconds
    /\ (DOMAIN renamed = {} /\ \A th \in clear_threads : th.left > 0) => pending_moves = {}

\* a rename failed while the paths of an earlier move were still pending
C29_Witness ==
    /\ last.kind \in {"batch", "move_file"}
    /\ last.failed # << >>
    /\ pending_moves # {}

\* C30 - Chunks follow their document: after a batch whose organize pass
\* relocated one document, every chunk of that document carries the
\* document's current path and the cluster_id and topic_label that
\* file_clusters holds for it.
C30_ChunksFollowDocument ==
    (OneCallback /\ Len(last.moves) = 1 /\ last.moves[1][2] \in DOMAIN file_clusters)
        => LET path == last.moves[1][1]
               target == last.moves[1][2]
           IN \A id \in DOMAIN chunks :
                 chunks[id].filepath \in {path, target}
                     => /\ chunks[id].filepath = target
                        /\ chunks[id].cluster_id = file_clusters[target].cluster_id
                        /\ chunks[id].topic_label = file_clusters[target].topic_label

(***************************************************************************)
(* The threads. Every expired Timer runs _process_queue on a thread of its *)
(* own (monitor.py), on_any_event runs on the observer's thread, and the   *)
(* handlers of the API run on the threads of the server (main.py). No      *)
(* lock is taken anywhere. A step of a thread is one statement on the      *)
(* shared maps; steps of different threads interleave, and any time may    *)
(* pass between two steps.                                                 *)
(***************************************************************************)
RECURSIVE DictUpdate(_, _, _)
\* dict.update(e) on a dictionary kept in insertion order
DictUpdate(d, e, i) ==
    IF i > Len(e) THEN d ELSE DictUpdate(DictSet(d, e[i].k, e[i].v), e, i + 1)

\* dict.update(g)
MapUpdate(f, g) ==
    [x \in (DOMAIN f) \cup (DOMAIN g) |-> IF x \in DOMAIN g THEN g[x] ELSE f[x]]

\* a Timer thread that enters _process_queue, with its local variables:
\* unique_events (each event with the seconds since it was accepted), the
\* list the for loop goes through and its index, files_to_process and
\* files_to_delete of the running callback, existing_files and the
\* *_clean dictionary of the running pass
NewWorker == [pc |-> "drain", unique_events |-> << >>, events |-> << >>, i |-> 1,
              to_process |-> << >>, to_delete |-> << >>,
              existing_files |-> << >>, clean |-> EmptyMap]

\* the threads inside recluster_and_organize, after its first statement
InPass == {w \in 1..Len(workers) :
              workers[w].pc \in {"clear_emb", "update_emb", "copy_cont", "clear_cont",
                                 "update_cont", "copy_clus", "clear_clus", "update_clus",
                                 "organize"}}

At(w, pc) == w \in 1..Len(workers) /\ workers[w].pc = pc

\* a step of thread w that leaves the handler state S and the locals t
WorkerStep(w, t, S, did) ==
    /\ Commit(S)
    /\ workers' = [workers EXCEPT ![w] = t]
    /\ last' = did
    /\ UNCHANGED <<event_queue, queue_age, debounce_timer, mclock, nextDoc, opsLeft,
                   observer_alive, gemini_client>>

\* thread w returns, or dies of an exception
WorkerEnd(w, S, did) ==
    /\ Commit(S)
    /\ workers' = [j \in 1..(Len(workers) - 1) |-> IF j < w THEN workers[j] ELSE workers[j + 1]]
    /\ last' = did
    /\ UNCHANGED <<event_queue, queue_age, debounce_timer, mclock, nextDoc, opsLeft,
                   observer_alive, gemini_client>>

\* on_any_event on the observer thread; an accepted event is appended
Accept ==
    /\ Observe
    /\ queue_age' = IF Len(event_queue') > Len(event_queue) THEN Append(queue_age, 0)
                    ELSE queue_age
    /\ UNCHANGED workers

\* the Timer expires and starts its thread
TimerStart ==
    /\ debounce_timer = 0
    /\ debounce_timer' = -1
    /\ workers' = Append(workers, NewWorker)
    /\ last' = [Idle EXCEPT !.kind = "timer"]
    /\ UNCHANGED <<file_embeddings, file_contents, file_clusters, store, chunks, files, dirs,
                   pending_moves, clear_threads, inflight, event_queue, queue_age, renamed,
                   mclock, nextDoc, opsLeft, observer_alive, gemini_client>>

\* event = self.event_queue.popleft(); unique_events[event.src_path] = event
Pop(w) ==
    /\ At(w, "drain")
    /\ event_queue # << >>
    /\ event_queue' = Tail(event_queue)
    /\ queue_age' = Tail(queue_age)
    /\ workers' = [workers EXCEPT ![w].unique_events =
                      DictSet(@, Head(event_queue).src_path,
                              [ev |-> Head(event_queue), age |-> Head(queue_age)])]
    /\ last' = [Idle EXCEPT !.kind = "pop", !.event = Head(event_queue),
                            !.age = Head(queue_age)]
    /\ UNCHANGED <<file_embeddings, file_contents, file_clusters, store, chunks, files, dirs,
                   pending_moves, clear_threads, inflight, debounce_timer, renamed,
                   mclock, nextDoc, opsLeft, observer_alive, gemini_client>>

\* the queue is found empty: by 'if not self.event_queue: return' when
\* nothing was popped, by the test of the while loop otherwise
DrainEnd(w) ==
    /\ At(w, "drain")
    /\ event_queue = << >>
    /\ LET t == workers[w]
       IN IF t.unique_events = << >>
          THEN WorkerEnd(w, Cur, [Idle EXCEPT !.kind = "return"])
          ELSE WorkerStep(w, [t EXCEPT !.pc = "deliver",
                                       !.events = [j \in 1..Len(t.unique_events) |->
                                                      t.unique_events[j].v],
                                       !.i = 1],
                          Cur, [Idle EXCEPT !.kind = "drained"])

\* self.callback(event), up to the end of the loop over the events
Callback(w) ==
    /\ At(w, "deliver")
    /\ workers[w].i <= Len(workers[w].events)
    /\ LET t == workers[w]
           e == t.events[t.i]
           sorted == SortEvents([Cur EXCEPT !.calls = Append(@, <<e.ev>>)], <<e.ev>>, 1,
                                << >>, << >>)
           did == [Did("callback", sorted.s) EXCEPT !.event = e.ev, !.age = e.age,
                                                    !.raised = sorted.raised]
       IN IF sorted.raised THEN WorkerEnd(w, sorted.s, did)
          ELSE WorkerStep(w, [t EXCEPT !.to_process = sorted.to_process,
                                       !.to_delete = sorted.to_delete,
                                       !.pc = IF sorted.to_process # << >> THEN "ingest"
                                              ELSE "delete"],
                          sorted.s, did)

\* the for loop of _process_queue is over
Finish(w) ==
    /\ At(w, "deliver")
    /\ workers[w].i > Len(workers[w].events)
    /\ WorkerEnd(w, Cur, [Idle EXCEPT !.kind = "return"])

\* process_files_batch up to 'if completed > 0'
Ingest(w) ==
    /\ At(w, "ingest")
    /\ LET t == workers[w]
           r == BatchFrom([Cur EXCEPT !.submitted = @ \o t.to_process], t.to_process,
                          NoFault, 1, 0)
       IN WorkerStep(w, [t EXCEPT !.pc = IF r.completed > 0 THEN "pass" ELSE "delete"],
                     r.s, Did("ingest", r.s))

\* recluster_and_organize: 'if not file_embeddings', then
\* existing_files = {k: v for k, v in file_embeddings.items() if os.path.exists(k)}
PassStart(w) ==
    /\ At(w, "pass")
    /\ LET t == workers[w]
       IN IF file_embeddings = << >>
          THEN WorkerStep(w, [t EXCEPT !.pc = "delete"], [Cur EXCEPT !.clus = EmptyMap],
                          [Idle EXCEPT !.kind = "pass"])
          ELSE WorkerStep(w, [t EXCEPT !.pc = "clear_emb",
                                       !.existing_files =
                                           SelectSeq(file_embeddings,
                                                     LAMBDA e : e.k \in DOMAIN files)],
                          Cur, [Idle EXCEPT !.kind = "pass"])

\* file_embeddings.clear(), file_contents.clear() or file_clusters.clear()
PruneClear(w) ==
    /\ \E pc \in {"clear_emb", "clear_cont", "clear_clus"} : At(w, pc)
    /\ LET t == workers[w]
       IN WorkerStep(w, [t EXCEPT !.pc = CASE t.pc = "clear_emb" -> "update_emb"
                                          [] t.pc = "clear_cont" -> "update_cont"
                                          [] OTHER -> "update_clus"],
                     CASE t.pc = "clear_emb" -> [Cur EXCEPT !.emb = << >>]
                       [] t.pc = "clear_cont" -> [Cur EXCEPT !.cont = EmptyMap]
                       [] OTHER -> [Cur EXCEPT !.clus = EmptyMap],
                     [Idle EXCEPT !.kind = "clear"])

\* file_embeddings.update(existing_files), file_contents.update(file_contents_clean)
\* or file_clusters.update(file_clusters_clean)
PruneUpdate(w) ==
    /\ \E pc \in {"update_emb", "update_cont", "update_clus"} : At(w, pc)
    /\ LET t == workers[w]
       IN WorkerStep(w, [t EXCEPT !.pc = CASE t.pc = "update_emb" -> "copy_cont"
                                          [] t.pc = "update_cont" -> "copy_clus"
                                          [] OTHER -> "organize",
                                  !.clean = EmptyMap],
                     CASE t.pc = "update_emb"
                              -> [Cur EXCEPT !.emb = DictUpdate(@, t.existing_files, 1)]
                       [] t.pc = "update_cont" -> [Cur EXCEPT !.cont = MapUpdate(@, t.clean)]
                       [] OTHER -> [Cur EXCEPT !.clus = MapUpdate(@, t.clean)],
                     [Idle EXCEPT !.kind = "update"])

\* file_contents_clean = {k: v for k, v in file_contents.items() if k in existing_files},
\* and the same for file_clusters_clean
PruneCopy(w) ==
    /\ \E pc \in {"copy_cont", "copy_clus"} : At(w, pc)
    /\ LET t == workers[w]
           from == IF t.pc = "copy_cont" THEN file_contents ELSE file_clusters
           keep == (DOMAIN from) \cap DictKeys(t.existing_files)
       IN WorkerStep(w, [t EXCEPT !.pc = IF t.pc = "copy_cont" THEN "clear_cont"
                                         ELSE "clear_clus",
                                  !.clean = [p \in keep |-> from[p]]],
                     Cur, [Idle EXCEPT !.kind = "copy"])

\* 'if not file_embeddings: return', the clustering, the loop over
\* new_clusters and the sweep of the empty folders
Organize(w) ==
    /\ At(w, "organize")
    /\ LET S == IF file_embeddings = << >> THEN Cur
                ELSE SweepEmpty(OrganizeFrom(Cur, cluster_files_with_topics(file_embeddings,
                                                                           file_contents,
                                                                           CLUSTER_EPS,
                                                                           CLUSTER_MIN_SAMPLES),
                                                  1))
       IN WorkerStep(w, [workers[w] EXCEPT !.pc = "delete", !.existing_files = << >>],
                     S, Did("organize", S))

\* the loop over files_to_delete: the deletions of the next path, or the
\* end of the callback
Delete(w) ==
    /\ At(w, "delete")
    /\ LET t == workers[w]
       IN IF t.to_delete = << >>
          THEN WorkerStep(w, [t EXCEPT !.pc = "deliver", !.i = @ + 1, !.to_process = << >>],
                          Cur, [Idle EXCEPT !.kind = "called"])
          ELSE LET S == DeleteEntries(Cur, Head(t.to_delete))
               IN WorkerStep(w, [t EXCEPT !.pc = "pass", !.to_delete = Tail(@)],
                             S, Did("delete", S))

\* GET /graph, /stats, /clusters or POST /search reads the maps
ApiRead ==
    /\ opsLeft > 0
    /\ opsLeft' = opsLeft - 1
    /\ last' = [Idle EXCEPT !.kind = "read"]
    /\ UNCHANGED <<file_embeddings, file_contents, file_clusters, store, chunks, files, dirs,
                   pending_moves, clear_threads, inflight, event_queue, queue_age,
                   debounce_timer, renamed, mclock, nextDoc, observer_alive, gemini_client, workers>>

\* one second passes for the threads too
TickThreads ==
    /\ Elapse
    /\ queue_age' = [j \in 1..Len(queue_age) |-> Min(queue_age[j] + 1, debounce_seconds)]
    /\ workers' = [w \in 1..Len(workers) |->
                      [workers[w] EXCEPT
                          !.unique_events = [j \in 1..Len(@) |-> [@[j] EXCEPT !.v.age = Min(@ + 1, debounce_seconds)]],
                          !.events = [j \in 1..Len(@) |->
                                       [@[j] EXCEPT !.age = Min(@ + 1, debounce_seconds)]]]]

NextThreads ==
    \/ \E name \in Names : UserCreate(name, "entangle")
    \/ Accept
    \/ TimerStart
    \/ \E w \in 1..Len(workers) : Pop(w)
    \/ \E w \in 1..Len(workers) : DrainEnd(w)
    \/ \E w \in 1..Len(workers) : Callback(w)
    \/ \E w \in 1..Len(workers) : Finish(w)
    \/ \E w \in 1..Len(workers) : Ingest(w)
    \/ \E w \in 1..Len(workers) : PassStart(w)
    \/ \E w \in 1..Len(workers) : PruneClear(w)
    \/ \E w \in 1..Len(workers) : PruneUpdate(w)
    \/ \E w \in 1..Len(workers) : PruneCopy(w)
    \/ \E w \in 1..Len(workers) : Organize(w)
    \/ \E w \in 1..Len(workers) : Delete(w)
    \/ ApiRead
    \/ \E filepath \in DOMAIN files :
          MoveFileRequest(filepath, <<"Quantum_Entanglement", "0">>)
    \/ \E th \in clear_threads : ClearPending(th)
    \/ TickThreads

SpecThreads == Start(MaxThreadOps) /\ [][NextThreads]_vars

\* C22 - Serial organize passes: at no time are two threads inside
\* recluster_and_organize, and no thread is inside it in the state that a
\* successful /move-file request, a 'moved' branch or a deletion of
\* event_callback has just written.
C22_SerialPasses ==
    /\ Cardinality(InPass) <= 1
    /\ (last.kind = "move_file" /\ last.resp = "success") => InPass = {}
    /\ (last.kind = "callback" /\ last.event.event_type = "moved") => InPass = {}
    /\ last.kind = "delete" => InPass = {}

\* C23 - Locked map access: when a handler of the API reads the maps, no
\* thread is between the clear() and the update() of a prune: every map
\* holds the entries that a running pass has set aside for it.
C23_LockedMapAccess ==
    last.kind = "read"
        => \A w \in 1..Len(workers) :
              /\ workers[w].pc = "update_emb"
                     => DictKeys(workers[w].existing_files) \subseteq DictKeys(file_embeddings)
              /\ workers[w].pc = "update_cont"
                     => DOMAIN workers[w].clean \subseteq DOMAIN file_contents
              /\ workers[w].pc = "update_clus"
                     => DOMAIN workers[w].clean \subseteq DOMAIN file_clusters

\* C24 - No lost ingestion: an entry of file_embeddings that process_file
\* wrote for a file that is on disk before and after a step leaves the map
\* in that step only when the thread that cleared the map holds it in
\* existing_files and is about to put it back. (Stated for the files of the
\* monitored root: only process_file writes their entries.)
C24_NoLostIngestion ==
    [][\A p \in (DOMAIN files) \cap (DOMAIN files') \cap DictKeys(file_embeddings) :
          \/ p.dir # MONITOR_ROOT
          \/ p \in DictKeys(file_embeddings')
          \/ \E w \in 1..Len(workers') :
                /\ workers'[w].pc = "update_emb"
                /\ p \in DictKeys(workers'[w].existing_files)]_vars

\* C25 - Debounce: the callback is never invoked for an event less than
\* T_debounce after the event was accepted.
C25_Debounce ==
    last.kind = "callback" => last.age >= debounce_seconds

(***************************************************************************)
(* Delivery in the long run. The observer thread hands over every event it *)
(* holds, an armed Timer expires, a sleeping clear_pending thread wakes up *)
(* and time goes on; the user may stop at any moment.                      *)
(***************************************************************************)
\* the step of _process_queue as the Timer sees it: in SpecBurst the steps
\* that take debounce_timer from 0 to -1 are those of TimerFire(NoFault),
\* which is enabled whenever the Timer is due
TimerDue == debounce_timer = 0 /\ debounce_timer' = -1

SpecBurstLive ==
    /\ SpecBurst
    /\ WF_vars(ObserverDeliver)
    /\ WF_debounce_timer(TimerDue)
    /\ WF_vars(\E th \in clear_threads : ClearPending(th))
    /\ WF_vars(Tick)

\* the paths an event of a burst can name
C26_Paths == {MkPath(d, name) : d \in {MONITOR_ROOT, <<"Quantum_Entanglement", "0">>},
                                 name \in Names}

C26_Queued(p) == \E i \in 1..Len(event_queue) : event_queue[i].src_path = p

\* the callback was invoked for an event of path p
C26_Delivered(p) ==
    last.kind = "batch" /\ \E j \in 1..Len(last.delivered) : last.delivered[j].src_path = p

\* C26 - Eventual delivery: an event that was appended to event_queue is
\* eventually delivered to the callback, or a later event of the same
\* src_path is.
C26_EventualDelivery ==
    \A p \in C26_Paths : C26_Queued(p) ~> C26_Delivered(p)

(***************************************************************************)
(* The ingestor's threshold and what a failed call leaves behind.          *)
(***************************************************************************)
\* the number of characters of a text that are not whitespace
C34_NonSpace(t) == WordCount(t) * WordLen(t)

\* C34 - Minimum text length: process_file, reading a file without a fresh
\* cache entry and meeting no fault, returns False exactly when the text
\* has fewer than 10 characters that are not whitespace, and ingests a text
\* that has 10 or more.
C34_MinimumTextLength ==
    (last.kind = "process_file" /\ ~last.got.hit /\ last.args = NoFault
     /\ last.before # NoText)
        => (last.ok <=> C34_NonSpace(last.before.body) >= MinTextLen)

\* C37 - Failed ingestion leaves no trace: when process_file returns False,
\* file_embeddings, file_contents and the Store are what they were before
\* the call, and no path is left in file_embeddings without a Store row.
C37_FailedIngestionNoTrace ==
    [][(last'.kind = "process_file" /\ ~last'.ok)
          => /\ file_embeddings' = file_embeddings
             /\ file_contents' = file_contents
             /\ store' = store
             /\ DictKeys(file_embeddings') \subseteq DOMAIN store']_vars

(***************************************************************************)
(* What a pass does to the documents it organizes.                         *)
(***************************************************************************)
\* C35 - No document collapse: the passes of a batch overwrite no file on
\* disk - every document that was on disk before the batch is on disk after
\* it - and they map no two indexed documents to one path: every document
\* that was on disk and indexed before the batch is indexed after it.
C35_NoDocumentCollapse ==
    [][last'.kind = "batch"
          => /\ \A p \in DOMAIN files :
                    \E q \in DOMAIN files' : files'[q].doc = files[p].doc
             /\ \A p \in DictKeys(file_embeddings) \cap DOMAIN files \cap DOMAIN file_contents :
                    file_contents[p].doc = files[p].doc
                        => \E q \in DictKeys(file_embeddings') \cap DOMAIN file_contents' :
                              file_contents'[q].doc = files[p].doc]_vars

(***************************************************************************)
(* The clusterer alone: cluster_files_with_topics on every embedding map   *)
(* of up to MaxPoints entries, with contents for some of its keys, under   *)
(* the configured parameters and under stricter ones.                      *)
(***************************************************************************)
InitCluster ==
    /\ file_embeddings \in
           {e \in UNION {[1..n -> [k : {MkPath(MONITOR_ROOT, "a.txt"), MkPath(MONITOR_ROOT, "b.txt"),
                                       MkPath(<<"Quantum_Entanglement", "0">>, "a.txt"),
                                       MkPath(<<"Neural_Network", "1">>, "b.txt")},
                                  v : {"v_entangle", "v_tunnel", "v_neural"}]] : n \in 0..MaxPoints} :
               \A i, j \in DOMAIN e : i # j => e[i].k # e[j].k}
    /\ file_contents \in
           UNION {[K -> {MkText("entangle", 1), MkText("neural", 2)}] :
                     K \in SUBSET DictKeys(file_embeddings)}
    /\ file_clusters = EmptyMap
    /\ store = EmptyMap
    /\ chunks = EmptyMap
    /\ files = EmptyMap
    /\ dirs = {}
    /\ pending_moves = {}
    /\ clear_threads = {}
    /\ inflight = << >>
    /\ event_queue = << >>
    /\ debounce_timer = -1
    /\ renamed = EmptyMap
    /\ mclock = 0
    /\ nextDoc = 1
    /\ opsLeft = 1
    /\ gemini_client = FALSE
    /\ observer_alive = TRUE
    /\ workers = << >>
    /\ queue_age = << >>
    /\ last = Idle

\* analyzer.cluster_files_with_topics(file_embeddings, file_contents, eps,
\* min_samples); args keeps the two parameters, assigned the result
ClusterProbe(eps, min_samples) ==
    /\ opsLeft > 0
    /\ last' = [Idle EXCEPT !.kind = "cluster", !.args = <<eps, min_samples>>,
                            !.assigned = cluster_files_with_topics(file_embeddings, file_contents,
                                                                   eps, min_samples)]
    /\ opsLeft' = opsLeft - 1
    /\ UNCHANGED <<workers, queue_age, observer_alive, gemini_client, file_embeddings, file_contents, file_clusters,
                   store, chunks, files, dirs, pending_moves, clear_threads, inflight,
                   event_queue, debounce_timer, renamed, mclock, nextDoc>>

SpecCluster ==
    InitCluster /\ [][\E eps \in {2, CLUSTER_EPS}, min_samples \in {CLUSTER_MIN_SAMPLES, 2} :
                         ClusterProbe(eps, min_samples)]_vars

\* C31 - Clusterer output shape: the result of cluster_files_with_topics
\* has exactly the keys of the embedding map (none for the empty map);
\* every path whose density label is -1 gets (-1, "Uncategorized"); all
\* paths with the same cluster id of 0 or more get the same topic label;
\* and a cluster none of whose members has content gets "Misc".
C31_ClustererShape ==
    last.kind = "cluster"
        => LET result == last.assigned
               labels == DBSCAN([i \in 1..Len(file_embeddings) |-> file_embeddings[i].v],
                                last.args[1], last.args[2])
               members(c) == {i \in 1..Len(result) : result[i].cluster_id = c}
           IN /\ Len(result) = Len(file_embeddings)
              /\ {result[i].k : i \in 1..Len(result)} = DictKeys(file_embeddings)
              /\ file_embeddings = << >> => result = << >>
              /\ \A i \in 1..Len(result) :
                    /\ labels[i] = -1
                          => result[i].cluster_id = -1 /\ result[i].topic_label = "Uncategorized"
                    /\ \A j \in 1..Len(result) :
                          (result[i].cluster_id >= 0 /\ result[i].cluster_id = result[j].cluster_id)
                              => result[i].topic_label = result[j].topic_label
                    /\ (/\ result[i].cluster_id >= 0
                        /\ \A j \in members(result[i].cluster_id) : result[j].k \notin DOMAIN file_contents)
                          => result[i].topic_label = "Misc"

\* a map of three embeddings in which one path is noise, and the two others
\* share a cluster none of whose members has content
C31_Witness ==
    /\ last.kind = "cluster"
    /\ Len(last.assigned) = 3
    /\ \E i, j, n \in 1..3 :
          /\ i # j
          /\ last.assigned[n].cluster_id = -1
          /\ last.assigned[i].cluster_id = 0 /\ last.assigned[j].cluster_id = 0
          /\ last.assigned[i].topic_label = "Misc"
          /\ DOMAIN file_contents = {last.assigned[n].k}

\* the path at which the organize loop leaves the document of one item of
\* new_clusters
C36_Target(it) ==
    IF it.cluster_id = -1 THEN it.k
    ELSE MkPath(FolderName(it.topic_label, it.cluster_id), it.k.name)

UserRename(p, name) ==
    LET q == MkPath(p.dir, name)
    IN /\ opsLeft > 0 /\ inflight = << >>
       /\ p \in DOMAIN files
       /\ q \notin DOMAIN files
       /\ files' = MapSet(MapDel(files, p), q, files[p])
       /\ inflight' = Raise(MkEvent("moved", p, q, FALSE, ""))
       /\ opsLeft' = opsLeft - 1
       /\ last' = Idle
       /\ UNCHANGED <<workers, queue_age, observer_alive, gemini_client, file_embeddings, file_contents, file_clusters, store, chunks, dirs,
                      pending_moves, clear_threads, event_queue, debounce_timer, renamed,
                      mclock, nextDoc>>

NextRename ==
    \/ \E name \in Names : UserCreate(name, "entangle")
    \/ \E p \in DOMAIN files, name \in Names \cup {".a.txt", "a.tmp"} : UserRename(p, name)
    \/ ObserverDeliver
    \/ TimerFire(NoFault)
    \/ \E th \in clear_threads : ClearPending(th)
    \/ Tick

SpecRename == Start(MaxRenameOps) /\ [][NextRename]_vars

\* C33 - Eligibility: no path whose basename begins with '.' or whose
\* extension is not .txt or .pdf is ever a key of file_embeddings,
\* file_contents or file_clusters.
C33_Eligibility ==
    \A p \in DictKeys(file_embeddings) \cup DOMAIN file_contents \cup DOMAIN file_clusters :
        Eligible(p)

(***************************************************************************)
(* Shutdown (main.py, lifespan after the yield): monitor.stop().           *)
(***************************************************************************)
\* FSMonitor.stop: self.observer.stop() and self.observer.join(); the
\* events the observer had not dispatched yet are dropped.  Nothing is done
\* to handler.debounce_timer.
Shutdown ==
    /\ observer_alive
    /\ observer_alive' = FALSE
    /\ inflight' = << >>
    /\ last' = [Idle EXCEPT !.kind = "shutdown"]
    /\ UNCHANGED <<gemini_client, workers, queue_age, file_embeddings, file_contents, file_clusters,
                   store, chunks, files, dirs, pending_moves, clear_threads, event_queue,
                   debounce_timer, renamed, mclock, nextDoc, opsLeft>>

\* the user works on documents while the observer runs; the Timer, the
\* clear_pending threads and the clock go on after it has stopped
NextShutdown ==
    \/ observer_alive /\ \E name \in Names : UserCreate(name, "entangle")
    \/ observer_alive /\ \E p \in DOMAIN files : UserModify(p, files[p].body)
    \/ observer_alive /\ ObserverDeliver
    \/ TimerFire(NoFault)
    \/ Shutdown
    \/ \E th \in clear_threads : ClearPending(th)
    \/ Tick

SpecShutdown == Start(MaxShutdownOps) /\ [][NextShutdown]_vars

\* C32 - Shutdown: once the observer is stopped and joined, no debounce
\* timer is armed, and no expiry calls the dispatcher callback any more, so
\* that no ingestion and no move starts after the shutdown.
C32_Shutdown ==
    ~observer_alive
        => /\ debounce_timer = -1
           /\ ~(last.kind = "batch" /\ last.delivered # << >>)

\* the weaker statement that only the callback is never invoked after the
\* shutdown
C32_NoCallbackAfterShutdown ==
    ~observer_alive => ~(last.kind = "batch" /\ last.delivered # << >>)
====
